---- MODULE Spec2Model ----
(***************************************************************************)
(* A model of MirrorDNA's integrity core:                                  *)
(*   - VaultID / LineageChain        (src/src/mirrordna/vault_manager.py)  *)
(*   - TruthAssertion / TruthStateEnforcer                                 *)
(*                                   (src/src/mirrordna/truth_state.py)    *)
(*   - JSONFileStorage               (src/src/mirrordna/storage.py)        *)
(*                                                                         *)
(* The strings a VaultID is made of are sequences of one-character         *)
(* strings, so that string formatting (to_uri) is computed; the strings    *)
(* the enforcer and the store only compare are TLA+ strings.  An Optional  *)
(* value is a sequence of length 0 (None) or 1 (<<x>>): None differs from  *)
(* every string, the empty string included.                                *)
(***************************************************************************)
EXTENDS Integers, Sequences, FiniteSets, TLC

VARIABLES
    vault_ids,    \* LineageChain.vault_ids: the chain, oldest first
    chainCall,    \* the last call made on the chain, with its outcome
    assertions,   \* TruthStateEnforcer.assertions
    drift_log,    \* TruthStateEnforcer.drift_log
    clock,        \* the last reading of datetime.utcnow()
    enfCall,      \* the last call made on the enforcer, with its outcome
    files,        \* JSONFileStorage: the collection files on disk
    storeCall,    \* the last call made on the store, with its outcome
    fresh,        \* history: what create stored and nothing has touched since
    writers,      \* two callers of create: where each one is inside the call
    saved,        \* history: the callers that have saved, in the order they saved
    calc,         \* the last call of a checksum or URI function, with its outcome
    disk,         \* the files verify_checksum can find, by name
    artifacts,    \* VaultManager.artifacts
    created,      \* history: the content each artifact was created with
    lineage_chains,   \* VaultManager.lineage_chains
    vmCall,       \* the last call made on the vault manager, with its outcome
    gate_results, \* MetaCognitionEngine.gate_results
    custom_gates, \* MetaCognitionEngine.custom_gates
    gateCalls,    \* history: the number of wisdom_gate calls made
    gateCall,     \* the last call made on the engine, with its outcome
    docs,         \* collection -> None or the file as far as it is written
    rewrite,      \* None or the rewrite of a collection file under way
    survivors,    \* history: records an interrupted call found and was not about
    diskCall,     \* the last call made on the files, with its outcome
    limiter,      \* None or the RateLimiter: max_calls, time_window, calls
    wallclock,    \* what time.time() reads
    limLog,       \* history: the calls made on the limiter, in order
    limCall       \* the last call made on the limiter, with its outcome

vars == <<vault_ids, chainCall, assertions, drift_log, clock, enfCall,
          files, storeCall, fresh, writers, saved, calc, disk,
          artifacts, created, lineage_chains, vmCall,
          gate_results, custom_gates, gateCalls, gateCall,
          docs, rewrite, survivors, diskCall,
          limiter, wallclock, limLog, limCall>>

chainVars == <<vault_ids, chainCall>>
enfVars == <<assertions, drift_log, clock, enfCall>>
storeVars == <<files, storeCall, fresh>>
procVars == <<writers, saved>>
pureVars == <<calc, disk>>
vmVars == <<artifacts, created, lineage_chains, vmCall>>
gateVars == <<gate_results, custom_gates, gateCalls, gateCall>>
crashVars == <<docs, rewrite, survivors, diskCall>>
limVars == <<limiter, wallclock, limLog, limCall>>
restVars == <<pureVars, vmVars, gateVars, crashVars, limVars>>
oldVars == <<chainVars, enfVars, storeVars, procVars>>
besidesPure == <<oldVars, vmVars, gateVars, crashVars, limVars>>
besidesVm == <<oldVars, pureVars, gateVars, crashVars, limVars>>
besidesGate == <<oldVars, pureVars, vmVars, crashVars, limVars>>
besidesCrash == <<oldVars, pureVars, vmVars, gateVars, limVars>>
besidesLimiter == <<oldVars, pureVars, vmVars, gateVars, crashVars>>

----------------------------------------------------------------------------
(* Python values *)

None == << >>
Some(x) == <<x>>

NoError == "returned"

Last(s) == s[Len(s)]
Front(s) == SubSeq(s, 1, Len(s) - 1)
IsPrefix(s, t) == Len(s) <= Len(t) /\ SubSeq(t, 1, Len(s)) = s

----------------------------------------------------------------------------
(* VaultID and LineageChain                                                *)

\* Bound: the longest chain the model builds.
MaxChain == 3

\* The strings VaultIDs are made of.
Domains == { <<"M">>, <<"A">> }
Modules == { <<"S">> }
Versions == { <<"1">>, <<"2">> }

\* f"AMOS://{self.domain}/{self.module}/v{self.version}"
to_uri(v) ==
    <<"A", "M", "O", "S", ":", "/", "/">> \o v.domain \o <<"/">>
        \o v.module \o <<"/", "v">> \o v.version

\* A predecessor that is no URI of any VaultID of the model.
WrongPredecessor == <<"A", "M", "O", "S", ":", "/", "/", "W", "/", "P", "/", "v", "0">>

Uris == { to_uri([domain |-> d, module |-> m, version |-> n, predecessor |-> None]) :
            d \in Domains, m \in Modules, n \in Versions }

Predecessors == {None} \cup { Some(u) : u \in Uris \cup {WrongPredecessor} }

\* The VaultID dataclass.  checksum, created_at and metadata are not read by
\* any LineageChain method and are left out of the record.
VaultIDs == [domain : Domains, module : Modules, version : Versions,
             predecessor : Predecessors]

LineageBreak == "ValueError: Lineage break"

\* A mutant of append: the predecessor link is not verified.
append_unchecked(chain, vault_id) ==
    [raised |-> NoError, vault_ids |-> Append(chain, vault_id)]

\* A mutant of append: the record is stored before the link is verified.
append_then_check(chain, vault_id) ==
    IF chain # << >> /\ vault_id.predecessor # Some(to_uri(Last(chain)))
    THEN [raised |-> LineageBreak, vault_ids |-> Append(chain, vault_id)]
    ELSE [raised |-> NoError, vault_ids |-> Append(chain, vault_id)]

\* LineageChain.append: the outcome and the chain it leaves.
append(chain, vault_id) ==
    IF chain # << >> /\ vault_id.predecessor # Some(to_uri(Last(chain)))
    THEN [raised |-> LineageBreak, vault_ids |-> chain]
    ELSE [raised |-> NoError, vault_ids |-> Append(chain, vault_id)]

\* LineageChain.get_current
get_current(chain) == IF chain # << >> THEN Some(Last(chain)) ELSE None

\* A mutant of get_ancestor: the index is not range-checked from below, so a
\* negative index counts from the end of the list.
get_ancestor_wrapping(chain, generations_back) ==
    LET idx == Len(chain) - 1 - generations_back
    IN  IF 0 <= idx /\ idx < Len(chain) THEN Some(chain[idx + 1])
        ELSE IF idx < 0 /\ -Len(chain) <= idx THEN Some(chain[Len(chain) + idx + 1])
        ELSE None

\* LineageChain.get_ancestor
get_ancestor(chain, generations_back) ==
    LET idx == Len(chain) - 1 - generations_back      \* 0-based
    IN  IF 0 <= idx /\ idx < Len(chain) THEN Some(chain[idx + 1]) ELSE None

\* A mutant of verify_integrity: only the newest link is looked at.
verify_integrity_newest_link(chain) ==
    Len(chain) < 2 \/ Last(chain).predecessor = Some(to_uri(chain[Len(chain) - 1]))

\* LineageChain.verify_integrity: the loop returns False at the first broken link.
RECURSIVE verify_from(_, _)
verify_from(chain, i) ==
    IF i > Len(chain) THEN TRUE
    ELSE IF chain[i].predecessor # Some(to_uri(chain[i - 1])) THEN FALSE
    ELSE verify_from(chain, i + 1)

verify_integrity(chain) == verify_from(chain, 2)

ChainCall(op, arg, before, raised, result) ==
    [op |-> op, arg |-> arg, before |-> before, raised |-> raised, result |-> result]

InitChain ==
    /\ vault_ids = << >>
    /\ chainCall = ChainCall("new", None, << >>, NoError, None)

AppendCall ==
    /\ \E v \in VaultIDs :
        LET r == append(vault_ids, v)
        IN  /\ Len(r.vault_ids) <= MaxChain
            /\ vault_ids' = r.vault_ids
            /\ chainCall' = ChainCall("append", Some(v), vault_ids, r.raised, None)
    /\ UNCHANGED <<enfVars, storeVars, procVars, restVars>>

GetCurrentCall ==
    /\ vault_ids' = vault_ids
    /\ chainCall' = ChainCall("get_current", None, vault_ids, NoError,
                              get_current(vault_ids))
    /\ UNCHANGED <<enfVars, storeVars, procVars, restVars>>

GetAncestorCall ==
    /\ \E n \in -1 .. (MaxChain + 1) :
        /\ vault_ids' = vault_ids
        /\ chainCall' = ChainCall("get_ancestor", Some(n), vault_ids, NoError,
                                  get_ancestor(vault_ids, n))
    /\ UNCHANGED <<enfVars, storeVars, procVars, restVars>>

VerifyIntegrityCall ==
    /\ vault_ids' = vault_ids
    /\ chainCall' = ChainCall("verify_integrity", None, vault_ids, NoError,
                              Some(verify_integrity(vault_ids)))
    /\ UNCHANGED <<enfVars, storeVars, procVars, restVars>>

NextChain ==
    \/ AppendCall
    \/ GetCurrentCall
    \/ GetAncestorCall
    \/ VerifyIntegrityCall

----------------------------------------------------------------------------
(* A chain whose vault_ids list is rebuilt or edited from outside: the     *)
(* list is a plain public field, and a persisted chain is loaded as given. *)

\* The elements an edit can put in: one stream, every link within it.
TamperIDs ==
    { v \in VaultIDs :
        /\ v.domain = <<"M">>
        /\ v.predecessor \in {None} \cup { Some(to_uri(x)) : x \in { y \in VaultIDs : y.domain = <<"M">> } } }

Tampered == ChainCall("edit", None, << >>, NoError, None)

\* vault_ids.insert(i - 1, v)
InsertAt(chain, i, v) == SubSeq(chain, 1, i - 1) \o <<v>> \o SubSeq(chain, i, Len(chain))

\* del vault_ids[i - 1]
RemoveAt(chain, i) == SubSeq(chain, 1, i - 1) \o SubSeq(chain, i + 1, Len(chain))

\* vault_ids[i - 1], vault_ids[i] = vault_ids[i], vault_ids[i - 1]
SwapAt(chain, i) ==
    [chain EXCEPT ![i] = chain[i + 1], ![i + 1] = chain[i]]

BuildCall ==
    /\ \E v \in TamperIDs :
        LET r == append(vault_ids, v)
        IN  /\ Len(r.vault_ids) <= MaxChain
            /\ vault_ids' = r.vault_ids
            /\ chainCall' = ChainCall("append", Some(v), vault_ids, r.raised, None)
    /\ UNCHANGED <<enfVars, storeVars, procVars, restVars>>

TamperInsert ==
    /\ Len(vault_ids) < MaxChain
    /\ \E i \in 1 .. Len(vault_ids) + 1, v \in TamperIDs :
           vault_ids' = InsertAt(vault_ids, i, v)
    /\ chainCall' = Tampered
    /\ UNCHANGED <<enfVars, storeVars, procVars, restVars>>

TamperRemove ==
    /\ \E i \in 1 .. Len(vault_ids) : vault_ids' = RemoveAt(vault_ids, i)
    /\ chainCall' = Tampered
    /\ UNCHANGED <<enfVars, storeVars, procVars, restVars>>

TamperReorder ==
    /\ \E i \in 1 .. Len(vault_ids) - 1 : vault_ids' = SwapAt(vault_ids, i)
    /\ chainCall' = Tampered
    /\ UNCHANGED <<enfVars, storeVars, procVars, restVars>>

NextTamper ==
    \/ BuildCall
    \/ TamperInsert
    \/ TamperRemove
    \/ TamperReorder
    \/ VerifyIntegrityCall

----------------------------------------------------------------------------
(* TruthAssertion and TruthStateEnforcer                                   *)

\* Bound: the longest assertion log the model builds.
MaxLog == 2
\* Bound: the latest reading of the clock.
MaxClock == 1

\* A confidence is a float; the model counts it in tenths, so 1.0 is 10.
ConfidenceZero == 0
ConfidenceOne == 10
\* get_drift_summary reports the last five drift entries.
RecentDrift == 5

TruthTags == {"FACT", "ESTIMATE", "UNKNOWN", "DRIFT"}

\* What callers pass.  Arguments are Optional values; strings are opaque here.
Statements == {"s"}
Sources == {None, Some(""), Some("a")}
EstimateSources == {Some("")}
Reasons == {None}
Checksums == {Some("x"), Some("y")}
FactChecksums == {None, Some("x")}
CanonicalChecksums == {Some("x")}
Confidences == {None, Some(-1), Some(0), Some(10), Some(11)}
DriftSources == {Some("a")}
Contexts == {None, Some("c")}
CanonicalMetadata == Some([verified_against_canonical |-> TRUE])

FactError == "ValueError: FACT assertions must include source"
ConfidenceMissing == "ValueError: ESTIMATE assertions must include confidence"
ConfidenceRange == "ValueError: Confidence must be between 0.0 and 1.0"

\* Python's truth value of an Optional[str]: None and "" are falsy.
Truthy(x) == x # None /\ x # Some("")

\* str(x) inside an f-string
Str(x) == IF x = None THEN "None" ELSE x[1]

\* A mutant of __post_init__: only a missing (None) source is rejected, "" passes.
post_init_none_only(a) ==
    IF a.tag = "FACT" /\ a.source = None THEN FactError
    ELSE IF a.tag = "ESTIMATE" /\ a.confidence = None THEN ConfidenceMissing
    ELSE IF a.tag = "ESTIMATE"
            /\ ~(ConfidenceZero <= a.confidence[1] /\ a.confidence[1] <= ConfidenceOne)
         THEN ConfidenceRange
    ELSE NoError

\* TruthAssertion.__post_init__: what the constructor raises, if anything.
__post_init__(a) ==
    IF a.tag = "FACT" /\ ~Truthy(a.source) THEN FactError
    ELSE IF a.tag = "ESTIMATE" /\ a.confidence = None THEN ConfidenceMissing
    ELSE IF a.tag = "ESTIMATE"
            /\ ~(ConfidenceZero <= a.confidence[1] /\ a.confidence[1] <= ConfidenceOne)
         THEN ConfidenceRange
    ELSE NoError

\* The TruthAssertion dataclass.
TruthAssertion(statement, tag, source, confidence, verified_at, checksum, metadata) ==
    [statement |-> statement, tag |-> tag, source |-> source,
     confidence |-> confidence, verified_at |-> verified_at,
     checksum |-> checksum, metadata |-> metadata]

\* The outcome of an enforcer method: what it raised or returned, and the logs.
Outcome(raised, result, as, dl) ==
    [raised |-> raised, result |-> result, assertions |-> as, drift_log |-> dl]

\* A mutant of construct_and_append: the log keeps one entry and evicts the older.
construct_and_evict(as, dl, assertion) ==
    IF __post_init__(assertion) # NoError
    THEN Outcome(__post_init__(assertion), None, as, dl)
    ELSE Outcome(NoError, Some(assertion), <<assertion>>, dl)

\* Construct, then append: a constructor that raises leaves the log alone.
construct_and_append(as, dl, assertion) ==
    IF __post_init__(assertion) # NoError
    THEN Outcome(__post_init__(assertion), None, as, dl)
    ELSE Outcome(NoError, Some(assertion), Append(as, assertion), dl)

\* A mutant of assert_fact: the assertion is appended before it is validated.
assert_fact_append_first(as, dl, now, statement, source, checksum, metadata) ==
    LET a == TruthAssertion(statement, "FACT", source, None, Some(now), checksum, metadata)
    IN  Outcome(__post_init__(a), IF __post_init__(a) = NoError THEN Some(a) ELSE None,
                Append(as, a), dl)

\* TruthStateEnforcer.assert_fact
assert_fact(as, dl, now, statement, source, checksum, metadata) ==
    construct_and_append(as, dl,
        TruthAssertion(statement, "FACT", source, None, Some(now), checksum, metadata))

\* TruthStateEnforcer.assert_estimate
assert_estimate(as, dl, now, statement, confidence, source, metadata) ==
    construct_and_append(as, dl,
        TruthAssertion(statement, "ESTIMATE", source, confidence, Some(now), None, metadata))

\* TruthStateEnforcer.assert_unknown: the reason is stored as the source.
assert_unknown(as, dl, now, statement, reason, metadata) ==
    construct_and_append(as, dl,
        TruthAssertion(statement, "UNKNOWN", reason, None, Some(now), None, metadata))

\* TruthStateEnforcer.verify_against_canonical
verify_against_canonical(as, dl, now, statement, canonical_source, canonical_checksum) ==
    assert_fact(as, dl, now, statement, canonical_source, canonical_checksum,
                CanonicalMetadata)

\* The drift_entry dict of detect_drift.
DriftEntry(now, source, expected_checksum, actual_checksum, context) ==
    [detected_at |-> Some(now), source |-> source,
     expected_checksum |-> expected_checksum,
     actual_checksum |-> actual_checksum, context |-> context]

\* The DRIFT assertion detect_drift builds from a drift entry.
DriftAssertion(entry) ==
    TruthAssertion("Drift detected in " \o Str(entry.source), "DRIFT", entry.source,
                   None, entry.detected_at, None,
                   Some([expected_checksum |-> entry.expected_checksum,
                         actual_checksum |-> entry.actual_checksum,
                         context |-> entry.context]))

\* A mutant of detect_drift: the drift is logged but no assertion is made.
detect_drift_event_only(as, dl, now, expected_checksum, actual_checksum, source, context) ==
    IF expected_checksum # actual_checksum
    THEN Outcome(NoError, Some(TRUE), as,
                 Append(dl, DriftEntry(now, source, expected_checksum,
                                       actual_checksum, context)))
    ELSE Outcome(NoError, Some(FALSE), as, dl)

\* A mutant of detect_drift: the checksums are swapped in the drift entry.
detect_drift_swapped(as, dl, now, expected_checksum, actual_checksum, source, context) ==
    IF expected_checksum # actual_checksum
    THEN LET entry == DriftEntry(now, source, actual_checksum, expected_checksum, context)
         IN  Outcome(NoError, Some(TRUE), Append(as, DriftAssertion(entry)),
                     Append(dl, entry))
    ELSE Outcome(NoError, Some(FALSE), as, dl)

\* A mutant of detect_drift: every comparison is logged, matches included.
detect_drift_always(as, dl, now, expected_checksum, actual_checksum, source, context) ==
    LET entry == DriftEntry(now, source, expected_checksum, actual_checksum, context)
    IN  Outcome(NoError, Some(expected_checksum # actual_checksum),
                Append(as, DriftAssertion(entry)), Append(dl, entry))

\* TruthStateEnforcer.detect_drift
detect_drift(as, dl, now, expected_checksum, actual_checksum, source, context) ==
    IF expected_checksum # actual_checksum
    THEN LET entry == DriftEntry(now, source, expected_checksum, actual_checksum, context)
         IN  Outcome(NoError, Some(TRUE), Append(as, DriftAssertion(entry)),
                     Append(dl, entry))
    ELSE Outcome(NoError, Some(FALSE), as, dl)

\* TruthStateEnforcer.get_assertions_by_tag: [a for a in self.assertions if a.tag == tag]
get_assertions_by_tag(as, tag) == LET HasTag(a) == a.tag = tag IN SelectSeq(as, HasTag)

\* TruthStateEnforcer.get_drift_summary
get_drift_summary(dl) ==
    [total_drift_events |-> Len(dl),
     recent_drift |-> IF Len(dl) > RecentDrift
                      THEN SubSeq(dl, Len(dl) - RecentDrift + 1, Len(dl)) ELSE dl,
     drift_sources |-> { dl[i].source : i \in 1 .. Len(dl) }]

\* TruthStateEnforcer.export_assertions: to_dict keeps every field.
export_assertions(as) == [i \in 1 .. Len(as) |-> as[i]]

\* TruthStateEnforcer.get_summary
get_summary(as, dl) ==
    [total_assertions |-> Len(as),
     by_tag |-> [t \in TruthTags |-> Len(get_assertions_by_tag(as, t))],
     drift_summary |-> get_drift_summary(dl)]

EnfCall(op, args, as, dl, raised, result) ==
    [op |-> op, args |-> args, before |-> [assertions |-> as, drift_log |-> dl],
     raised |-> raised, result |-> result]

\* A call that takes the enforcer to the outcome out.
EnfStep(op, args, out) ==
    /\ Len(out.assertions) <= MaxLog
    /\ assertions' = out.assertions
    /\ drift_log' = out.drift_log
    /\ clock' = clock
    /\ enfCall' = EnfCall(op, args, assertions, drift_log, out.raised, out.result)
    /\ UNCHANGED <<chainVars, storeVars, procVars, restVars>>

\* A call that only reads the logs.
EnfRead(op, args, result) ==
    /\ UNCHANGED <<assertions, drift_log, clock>>
    /\ enfCall' = EnfCall(op, args, assertions, drift_log, NoError, Some(result))
    /\ UNCHANGED <<chainVars, storeVars, procVars, restVars>>

InitEnforcer ==
    /\ assertions = << >>
    /\ drift_log = << >>
    /\ clock = 0
    /\ enfCall = EnfCall("new", None, << >>, << >>, NoError, None)

\* Time passes between calls; datetime.utcnow() reads the clock.
Tick ==
    /\ clock < MaxClock
    /\ clock' = clock + 1
    /\ UNCHANGED <<assertions, drift_log, enfCall, chainVars, storeVars, procVars, restVars>>

AssertFactCall ==
    \E st \in Statements, src \in Sources, ck \in FactChecksums :
        EnfStep("assert_fact",
                [statement |-> st, source |-> src, checksum |-> ck, metadata |-> None],
                assert_fact(assertions, drift_log, clock, st, src, ck, None))

AssertEstimateCall ==
    \E st \in Statements, cf \in Confidences, src \in EstimateSources :
        EnfStep("assert_estimate",
                [statement |-> st, confidence |-> cf, source |-> src, metadata |-> None],
                assert_estimate(assertions, drift_log, clock, st, cf, src, None))

AssertUnknownCall ==
    \E st \in Statements, rs \in Reasons :
        EnfStep("assert_unknown",
                [statement |-> st, reason |-> rs, metadata |-> None],
                assert_unknown(assertions, drift_log, clock, st, rs, None))

VerifyAgainstCanonicalCall ==
    \E st \in Statements, src \in Sources, ck \in CanonicalChecksums :
        EnfStep("verify_against_canonical",
                [statement |-> st, canonical_source |-> src, canonical_checksum |-> ck],
                verify_against_canonical(assertions, drift_log, clock, st, src, ck))

DetectDriftCall ==
    \E x \in Checksums, y \in Checksums, src \in DriftSources, ctx \in Contexts :
        EnfStep("detect_drift",
                [expected_checksum |-> x, actual_checksum |-> y,
                 source |-> src, context |-> ctx],
                detect_drift(assertions, drift_log, clock, x, y, src, ctx))

GetAssertionsByTagCall ==
    \E tag \in TruthTags :
        EnfRead("get_assertions_by_tag", [tag |-> tag],
                get_assertions_by_tag(assertions, tag))

GetSummaryCall ==
    EnfRead("get_summary", None, get_summary(assertions, drift_log))

GetDriftSummaryCall ==
    EnfRead("get_drift_summary", None, get_drift_summary(drift_log))

ExportAssertionsCall ==
    EnfRead("export_assertions", None, export_assertions(assertions))

NextEnforcer ==
    \/ AssertFactCall
    \/ AssertEstimateCall
    \/ AssertUnknownCall
    \/ VerifyAgainstCanonicalCall
    \/ DetectDriftCall
    \/ GetAssertionsByTagCall
    \/ GetSummaryCall
    \/ GetDriftSummaryCall
    \/ ExportAssertionsCall
    \/ Tick

----------------------------------------------------------------------------
(* JSONFileStorage                                                         *)

\* Bound: the most records the store holds, over all its collections.
MaxRecords == 2

\* Collection names, record ids (non-empty strings), field names and values.
Collections == {"identities", "notes"}
Ids == {"a", "b"}
Fields == {"identity_id", "id"}
Values == Ids

\* A record is a JSON object: a mapping from some field names to values.
Records == UNION { [fs -> Values] : fs \in SUBSET Fields }
\* The partial fields update is called with: one field, set to the value "b".
Updates == { u \in Records : Cardinality(DOMAIN u) = 1 /\ \A f \in DOMAIN u : u[f] = "b" }

\* A Python dict keeps insertion order: a sequence of <<key, value>> pairs with
\* no key twice.  A JSON object in a file is a sequence of <<name, value>>
\* members, in the order they were written.
EmptyDict == << >>
DictKeys(d) == { d[i][1] : i \in 1 .. Len(d) }
DictHas(d, k) == k \in DictKeys(d)
DictIndex(d, k) == CHOOSE i \in 1 .. Len(d) : d[i][1] = k
\* d.get(k)
DictGet(d, k) == IF DictHas(d, k) THEN Some(d[DictIndex(d, k)][2]) ELSE None
\* d[k] = v: a new key goes last, a known key keeps its place.
DictSet(d, k, v) ==
    IF DictHas(d, k)
    THEN [i \in 1 .. Len(d) |-> IF d[i][1] = k THEN <<k, v>> ELSE d[i]]
    ELSE Append(d, <<k, v>>)
\* del d[k]
DictDel(d, k) == LET Keep(e) == e[1] # k IN SelectSeq(d, Keep)

\* record.update(updates): a shallow merge, the update's fields win.
Merge(record, updates) ==
    [f \in DOMAIN record \cup DOMAIN updates |->
        IF f \in DOMAIN updates THEN updates[f] ELSE record[f]]

\* json.dump writes a dict's items in order; a str key is written as it is.
JsonDump(d) == [i \in 1 .. Len(d) |-> <<d[i][1], d[i][2]>>]

\* json.load builds the dict member by member: a repeated name keeps its first
\* place and its last value.
RECURSIVE JsonLoadFrom(_, _)
JsonLoadFrom(members, d) ==
    IF members = << >> THEN d
    ELSE JsonLoadFrom(Tail(members), DictSet(d, members[1][1], members[1][2]))

JsonLoad(members) == JsonLoadFrom(members, EmptyDict)

\* JSONFileStorage._load_collection: a collection with no file is empty.
_load_collection(fs, collection) ==
    IF fs[collection] = None THEN EmptyDict ELSE JsonLoad(fs[collection][1])

\* JSONFileStorage._save_collection: the whole file is rewritten.
_save_collection(fs, collection, data) ==
    [fs EXCEPT ![collection] = Some(JsonDump(data))]

\* A mutant of id_field: every collection is keyed on "id".
id_field_always_id(collection) == "id"

\* id_field_map.get(collection, "id")
id_field(collection) ==
    CASE collection = "identities" -> "identity_id"
      [] collection = "sessions" -> "session_id"
      [] collection = "memories" -> "memory_id"
      [] collection = "agent_dna" -> "agent_dna_id"
      [] OTHER -> "id"

InvalidDataFormatError == "InvalidDataFormatError"
DuplicateEntryError == "DuplicateEntryError"

\* The outcome of a store method: what it raised or returned, and the files.
StoreOutcome(raised, result, fs) == [raised |-> raised, result |-> result, files |-> fs]

\* A mutant of create: the collection is saved before the record is stored.
create_save_first(fs, collection, record) ==
    IF id_field(collection) \notin DOMAIN record
    THEN StoreOutcome(InvalidDataFormatError, None, fs)
    ELSE LET record_id == record[id_field(collection)]
             data == _load_collection(fs, collection)
         IN  IF DictHas(data, record_id)
             THEN StoreOutcome(DuplicateEntryError, None, fs)
             ELSE StoreOutcome(NoError, Some(record_id),
                               _save_collection(fs, collection, data))

\* A mutant of create: an id that exists is not refused, the record is replaced.
create_overwrite(fs, collection, record) ==
    IF id_field(collection) \notin DOMAIN record
    THEN StoreOutcome(InvalidDataFormatError, None, fs)
    ELSE LET record_id == record[id_field(collection)]
             data == _load_collection(fs, collection)
         IN  StoreOutcome(NoError, Some(record_id),
                          _save_collection(fs, collection,
                                          DictSet(data, record_id, record)))

\* JSONFileStorage.create
create(fs, collection, record) ==
    IF id_field(collection) \notin DOMAIN record
    THEN StoreOutcome(InvalidDataFormatError, None, fs)
    ELSE LET record_id == record[id_field(collection)]
             data == _load_collection(fs, collection)
         IN  IF DictHas(data, record_id)
             THEN StoreOutcome(DuplicateEntryError, None, fs)
             ELSE StoreOutcome(NoError, Some(record_id),
                               _save_collection(fs, collection,
                                               DictSet(data, record_id, record)))

\* JSONFileStorage.read: None when the id is absent.
read(fs, collection, record_id) ==
    StoreOutcome(NoError, DictGet(_load_collection(fs, collection), record_id), fs)

\* A mutant of update: the stored record is replaced by the update's fields.
update_replace(fs, collection, record_id, updates) ==
    LET data == _load_collection(fs, collection)
    IN  IF ~DictHas(data, record_id)
        THEN StoreOutcome(NoError, None, fs)
        ELSE StoreOutcome(NoError, Some(updates),
                          _save_collection(fs, collection,
                                           DictSet(data, record_id, updates)))

\* JSONFileStorage.update: None, and no write, when the id is absent.
update(fs, collection, record_id, updates) ==
    LET data == _load_collection(fs, collection)
    IN  IF ~DictHas(data, record_id)
        THEN StoreOutcome(NoError, None, fs)
        ELSE LET merged == Merge(DictGet(data, record_id)[1], updates)
             IN  StoreOutcome(NoError, Some(merged),
                              _save_collection(fs, collection,
                                              DictSet(data, record_id, merged)))

\* A mutant of delete: the collection is emptied, not only the one record.
delete_all(fs, collection, record_id) ==
    LET data == _load_collection(fs, collection)
    IN  IF ~DictHas(data, record_id)
        THEN StoreOutcome(NoError, Some(FALSE), fs)
        ELSE StoreOutcome(NoError, Some(TRUE),
                          _save_collection(fs, collection, EmptyDict))

\* JSONFileStorage.delete: False, and no write, when the id is absent.
delete(fs, collection, record_id) ==
    LET data == _load_collection(fs, collection)
    IN  IF ~DictHas(data, record_id)
        THEN StoreOutcome(NoError, Some(FALSE), fs)
        ELSE StoreOutcome(NoError, Some(TRUE),
                          _save_collection(fs, collection, DictDel(data, record_id)))

\* The records the store holds, over all its collections.
RecordCount(fs) ==
    LET n[cs \in SUBSET Collections] ==
            IF cs = {} THEN 0
            ELSE LET c == CHOOSE x \in cs : TRUE
                 IN  Len(_load_collection(fs, c)) + n[cs \ {c}]
    IN  n[Collections]

StoreCall(op, args, before, raised, result) ==
    [op |-> op, args |-> args, before |-> before, raised |-> raised, result |-> result]

\* fresh without the entry for <<collection, record_id>>
Touch(fr, collection, record_id) ==
    [k \in DOMAIN fr \ {<<collection, record_id>>} |-> fr[k]]

InitStore ==
    /\ files = [c \in Collections |-> None]
    /\ storeCall = StoreCall("new", None, [c \in Collections |-> None], NoError, None)
    /\ fresh = << >>

\* A call that takes the store to the outcome out.
StoreStep(op, args, out, fr) ==
    /\ RecordCount(out.files) <= MaxRecords
    /\ files' = out.files
    /\ storeCall' = StoreCall(op, args, files, out.raised, out.result)
    /\ fresh' = fr
    /\ UNCHANGED <<chainVars, enfVars, procVars, restVars>>

CreateCall ==
    \E c \in Collections, r \in Records :
        LET out == create(files, c, r)
        IN  StoreStep("create", [collection |-> c, record |-> r], out,
                      IF out.raised = NoError
                      THEN [k \in DOMAIN fresh \cup {<<c, out.result[1]>>} |->
                               IF k = <<c, out.result[1]>> THEN r ELSE fresh[k]]
                      ELSE fresh)

ReadCall ==
    \E c \in Collections, id \in Ids :
        StoreStep("read", [collection |-> c, record_id |-> id],
                  read(files, c, id), fresh)

UpdateCall ==
    \E c \in Collections, id \in Ids, u \in Updates :
        StoreStep("update", [collection |-> c, record_id |-> id, updates |-> u],
                  update(files, c, id, u), Touch(fresh, c, id))

DeleteCall ==
    \E c \in Collections, id \in Ids :
        StoreStep("delete", [collection |-> c, record_id |-> id],
                  delete(files, c, id), Touch(fresh, c, id))

NextStore ==
    \/ CreateCall
    \/ ReadCall
    \/ UpdateCall
    \/ DeleteCall

----------------------------------------------------------------------------
(* JSONFileStorage.query, over records with nested values                  *)

\* Bound: the most records the queried collection holds.
MaxQueryRecords == 2
\* Bound: the largest limit a query is called with.
MaxLimit == 2

\* JSON values of a record's fields: a string, null (Python's None), an object.
JStr(x) == [str |-> x]
JNull == [null |-> TRUE]
JDict(f) == [dict |-> f]
IsDict(v) == DOMAIN v = {"dict"}

\* Filter keys are strings of characters, so that the dotted path is split.
KeyId == <<"i", "d">>
KeyM == <<"m">>
KeyMP == <<"m", ".", "p">>
FilterKeys == {KeyId, KeyM, KeyMP}
FilterValues == {JStr("a"), JNull}

\* The records created in the queried collection (notes, keyed on "id").
QueryIds == {JStr("a"), JStr("b"), JStr("c")}
NestedValues == {JStr("a"), JDict([p |-> JStr("a")]), JDict([p |-> JStr("b")])}
QueryRecords == { [id |-> i] : i \in QueryIds }
                    \cup { [id |-> i, m |-> x] : i \in QueryIds, x \in NestedValues }

\* The filters query is called with: None, {}, and one or two entries.
QueryFilters ==
    {None, Some(<< >>)}
        \cup { Some([k \in {key} |-> v]) : key \in FilterKeys, v \in FilterValues }
        \cup { Some([k \in {KeyId, KeyMP} |-> JStr("a")]),
               Some([k \in {KeyM, KeyMP} |-> JNull]) }
Limits == 0 .. MaxLimit

\* The characters of a key as one field name.
RECURSIVE StrOf(_)
StrOf(chars) == IF chars = << >> THEN "" ELSE chars[1] \o StrOf(Tail(chars))

\* key.split('.'): the parts between the dots, empty parts included.
RECURSIVE split_from(_, _)
split_from(chars, part) ==
    IF chars = << >> THEN <<part>>
    ELSE IF chars[1] = "." THEN <<part>> \o split_from(Tail(chars), << >>)
    ELSE split_from(Tail(chars), Append(part, chars[1]))

split(key) == split_from(key, << >>)

\* '.' in key
HasDot(key) == \E i \in 1 .. Len(key) : key[i] = "."

\* The loop over the parts of a dotted key: descend while the value is a dict
\* that holds the part, else None.
RECURSIVE descend(_, _)
descend(record_value, parts) ==
    IF parts = << >> THEN record_value
    ELSE IF IsDict(record_value) /\ StrOf(parts[1]) \in DOMAIN record_value.dict
         THEN descend(record_value.dict[StrOf(parts[1])], Tail(parts))
    ELSE JNull

\* The value a filter key selects in a record; record.get(key) is None when missing.
record_value_of(record, key) ==
    IF HasDot(key) THEN descend(JDict(record), split(key))
    ELSE IF StrOf(key) \in DOMAIN record THEN record[StrOf(key)] ELSE JNull

\* match: every filter entry equals the value it selects.
filter_match(record, filters) ==
    \A key \in DOMAIN filters : record_value_of(record, key) = filters[key]

\* results[:limit], a negative limit counting from the end.
Slice(results, limit) ==
    IF limit >= 0
    THEN SubSeq(results, 1, IF limit < Len(results) THEN limit ELSE Len(results))
    ELSE SubSeq(results, 1, IF Len(results) + limit > 0 THEN Len(results) + limit ELSE 0)

\* list(data.values())
DictValues(d) == [i \in 1 .. Len(d) |-> d[i][2]]

\* A mutant of query: the limit is applied before the filters.
query_limit_first(fs, collection, filters, limit) ==
    LET results == Slice(DictValues(_load_collection(fs, collection)), limit)
        Match(record) == filter_match(record, filters[1])
    IN  StoreOutcome(NoError,
                     Some(IF filters # None /\ DOMAIN filters[1] # {}
                          THEN SelectSeq(results, Match) ELSE results),
                     fs)

\* JSONFileStorage.query: "if filters:" skips None and {}.
query(fs, collection, filters, limit) ==
    LET results == DictValues(_load_collection(fs, collection))
        Match(record) == filter_match(record, filters[1])
    IN  StoreOutcome(NoError,
                     Some(Slice(IF filters # None /\ DOMAIN filters[1] # {}
                                THEN SelectSeq(results, Match) ELSE results, limit)),
                     fs)

\* A call on the queried collection that takes the store to the outcome out.
QueryStep(op, args, out) ==
    /\ Len(_load_collection(out.files, "notes")) <= MaxQueryRecords
    /\ files' = out.files
    /\ storeCall' = StoreCall(op, args, files, out.raised, out.result)
    /\ UNCHANGED <<fresh, chainVars, enfVars, procVars, restVars>>

QueryCreateCall ==
    \E r \in QueryRecords :
        QueryStep("create", [collection |-> "notes", record |-> r],
                  create(files, "notes", r))

QueryDeleteCall ==
    \E id \in QueryIds :
        QueryStep("delete", [collection |-> "notes", record_id |-> id],
                  delete(files, "notes", id))

QueryCall ==
    \E fl \in QueryFilters, limit \in Limits :
        QueryStep("query", [collection |-> "notes", filters |-> fl, limit |-> limit],
                  query(files, "notes", fl, limit))

NextQuery ==
    \/ QueryCreateCall
    \/ QueryDeleteCall
    \/ QueryCall

----------------------------------------------------------------------------
(* Two callers of JSONFileStorage.create on one storage directory: the     *)
(* load and the save of a call are separate steps, and nothing locks.      *)

Writers == {1, 2}
WriterRecords == { [id |-> i] : i \in Ids } \cup { [identity_id |-> "a"] }

\* A caller that is not inside a call.
Idle == [pc |-> "idle", record |-> None, data |-> None, raised |-> NoError, result |-> None]

\* create up to the duplicate check: the loaded collection, or the error raised.
create_load(fs, collection, record) ==
    IF id_field(collection) \notin DOMAIN record
    THEN [raised |-> InvalidDataFormatError, data |-> None]
    ELSE LET data == _load_collection(fs, collection)
         IN  IF DictHas(data, record[id_field(collection)])
             THEN [raised |-> DuplicateEntryError, data |-> None]
             ELSE [raised |-> NoError, data |-> Some(data)]

\* A mutant of create_store: the record is added to the file as it is now.
create_store_reloaded(fs, collection, record, data) ==
    _save_collection(fs, collection,
                     DictSet(_load_collection(fs, collection),
                             record[id_field(collection)], record))

\* create from the duplicate check on: the record is put in the loaded
\* collection, which replaces the file.
create_store(fs, collection, record, data) ==
    _save_collection(fs, collection,
                     DictSet(data, record[id_field(collection)], record))

InitWriters ==
    /\ writers = [w \in Writers |-> Idle]
    /\ saved = << >>

\* The caller enters create and runs it up to the duplicate check.
WriterLoad(w) ==
    /\ writers[w].pc = "idle"
    /\ \E r \in WriterRecords :
           LET out == create_load(files, "notes", r)
           IN  writers' = [writers EXCEPT ![w] =
                              [pc |-> IF out.raised = NoError THEN "loaded" ELSE "done",
                               record |-> Some(r), data |-> out.data,
                               raised |-> out.raised, result |-> None]]
    /\ UNCHANGED <<saved, storeVars, chainVars, enfVars, restVars>>

\* The caller saves the collection it loaded, with its record, and returns the id.
WriterSave(w) ==
    /\ writers[w].pc = "loaded"
    /\ files' = create_store(files, "notes", writers[w].record[1], writers[w].data[1])
    /\ writers' = [writers EXCEPT ![w].pc = "done",
                                  ![w].result = Some(writers[w].record[1][id_field("notes")])]
    /\ saved' = Append(saved, w)
    /\ UNCHANGED <<storeCall, fresh, chainVars, enfVars, restVars>>

\* The caller has its answer and is free to call again.
WriterReturn(w) ==
    /\ writers[w].pc = "done"
    /\ writers' = [writers EXCEPT ![w] = Idle]
    /\ saved' = SelectSeq(saved, LAMBDA x : x # w)
    /\ UNCHANGED <<storeVars, chainVars, enfVars, restVars>>

NextWriters ==
    \E w \in Writers :
        \/ WriterLoad(w)
        \/ WriterSave(w)
        \/ WriterReturn(w)

----------------------------------------------------------------------------
(* checksum.py: compute_state_checksum, compute_text_checksum,             *)
(* compute_file_checksum, verify_checksum                                  *)

\* Bound: the most elements a list inside a state has.
MaxListLen == 2

\* Values of a state: a string, a list, a dict with its keys in insertion order.
PyStr(x) == [str |-> x]
PyList(xs) == [list |-> xs]
PyDict(items) == [items |-> items]
IsPyStr(v) == DOMAIN v = {"str"}
IsPyList(v) == DOMAIN v = {"list"}
IsPyDict(v) == DOMAIN v = {"items"}

\* The keys of the states, in code point order (the order sort_keys sorts by).
Alphabet == <<"a", "b">>
Leaves == {PyStr("x"), PyStr("y")}
LeafLists == { PyList(xs) : xs \in UNION { [1 .. n -> Leaves] : n \in 1 .. MaxListLen } }

\* Every insertion order of dicts over the keys, with values from vals.
DictsOver(vals) ==
    {PyDict(<< >>)}
        \cup { PyDict(<<<<k, v>>>>) : k \in {"a", "b"}, v \in vals }
        \cup { PyDict(<<<<k[1], v>>, <<k[2], w>>>>) :
                   k \in {<<"a", "b">>, <<"b", "a">>}, v \in vals, w \in vals }

\* The dict {a: x, b: y} inside a state, in both insertion orders.
InnerDicts ==
    { PyDict(<<<<"a", PyStr("x")>>, <<"b", PyStr("y")>>>>),
      PyDict(<<<<"b", PyStr("y")>>, <<"a", PyStr("x")>>>>) }

\* The states compute_state_checksum is called with.
States == DictsOver(Leaves \cup LeafLists \cup InnerDicts)

\* sorted(dct.items()): the items in code point order of their keys.
RECURSIVE sorted_from(_, _)
sorted_from(items, i) ==
    IF i > Len(Alphabet) THEN << >>
    ELSE SelectSeq(items, LAMBDA it : it[1] = Alphabet[i]) \o sorted_from(items, i + 1)

sorted_items(items) == sorted_from(items, 1)

\* ','.join(parts)
RECURSIVE join(_)
join(parts) ==
    IF parts = << >> THEN ""
    ELSE IF Len(parts) = 1 THEN parts[1]
    ELSE parts[1] \o "," \o join(Tail(parts))

\* A mutant of json_dumps: the keys are written in insertion order.
RECURSIVE json_dumps_unsorted(_)
json_dumps_unsorted(v) ==
    IF IsPyStr(v) THEN "\"" \o v.str \o "\""
    ELSE IF IsPyList(v)
         THEN "[" \o join([i \in 1 .. Len(v.list) |-> json_dumps_unsorted(v.list[i])]) \o "]"
    ELSE "{" \o join([i \in 1 .. Len(v.items) |->
                         "\"" \o v.items[i][1] \o "\":" \o json_dumps_unsorted(v.items[i][2])])
             \o "}"

\* json.dumps(data, sort_keys=True, separators=(',', ':'))
RECURSIVE json_dumps(_)
json_dumps(v) ==
    IF IsPyStr(v) THEN "\"" \o v.str \o "\""
    ELSE IF IsPyList(v)
         THEN "[" \o join([i \in 1 .. Len(v.list) |-> json_dumps(v.list[i])]) \o "]"
    ELSE LET items == sorted_items(v.items)
         IN  "{" \o join([i \in 1 .. Len(items) |->
                             "\"" \o items[i][1] \o "\":" \o json_dumps(items[i][2])])
                 \o "}"

\* hashlib.sha256 of bytes, hexdigest(): injective, lower-case hex.
hexdigest(bytes) == [sha256 |-> bytes, case |-> "lower"]

\* text.encode('utf-8')
encode(text) == [utf8 |-> text]

\* compute_state_checksum
compute_state_checksum(data) == hexdigest(encode(json_dumps(data)))

\* The last call of a pure function: its name, arguments and results.
Calc(op, args, result) == [op |-> op, args |-> args, result |-> result]

\* The names and contents of the files verify_checksum can meet.
FileNames == {"x", "y"}
Texts == {"x", "hello"}
NoFiles == [n \in FileNames |-> None]

InitPure ==
    /\ calc = Calc("none", << >>, << >>)
    /\ disk = NoFiles

\* compute_state_checksum is called on two states; one call per run, as the
\* function keeps nothing between calls.
StateChecksumCall ==
    /\ calc.op = "none"
    /\ \E s \in States, t \in States :
           calc' = Calc("compute_state_checksum", <<s, t>>,
                        <<compute_state_checksum(s), compute_state_checksum(t)>>)
    /\ UNCHANGED <<disk, besidesPure>>

NextChecksum == StateChecksumCall

\* Path(path).exists()
exists(fs, path) == path \in DOMAIN fs /\ fs[path] # None

ConfigFileNotFoundError == "ConfigFileNotFoundError"
ChecksumComputationError == "ChecksumComputationError"

\* compute_file_checksum: the digest of the file's bytes.
compute_file_checksum(fs, path) ==
    IF ~exists(fs, path) THEN [raised |-> ConfigFileNotFoundError, value |-> None]
    ELSE [raised |-> NoError, value |-> Some(hexdigest(fs[path][1]))]

\* compute_text_checksum
compute_text_checksum(text) == hexdigest(encode(text))

\* str.lower() of a hex digest
lower(checksum) == [checksum EXCEPT !.case = "lower"]

\* Values verify_checksum is given besides str and dict: a Path, an int.
PyPath(x) == [path |-> x]
PyInt(x) == [int |-> x]
IsPyPath(v) == DOMAIN v = {"path"}

\* The name a str or Path argument stands for.
NameOf(v) == IF IsPyStr(v) THEN v.str ELSE v.path

\* verify_checksum: a str or Path that names an existing file is hashed as a
\* file, a dict as state, any other str as text.
verify_checksum(fs, data, expected_checksum) ==
    IF (IsPyStr(data) \/ IsPyPath(data)) /\ exists(fs, NameOf(data))
    THEN [raised |-> NoError,
          value |-> Some(lower(compute_file_checksum(fs, NameOf(data)).value[1])
                             = lower(expected_checksum))]
    ELSE IF IsPyDict(data)
    THEN [raised |-> NoError,
          value |-> Some(lower(compute_state_checksum(data)) = lower(expected_checksum))]
    ELSE IF IsPyStr(data)
    THEN [raised |-> NoError,
          value |-> Some(lower(compute_text_checksum(data.str)) = lower(expected_checksum))]
    ELSE [raised |-> ChecksumComputationError, value |-> None]

\* What verify_checksum is called with.
VerifyData ==
    { PyStr(t) : t \in Texts \cup FileNames } \cup { PyPath(n) : n \in FileNames }
        \cup { PyDict(<< >>), PyDict(<<<<"a", PyStr("x")>>>>), PyInt(1) }
ExpectedChecksums ==
    { [sha256 |-> encode(t), case |-> c] : t \in Texts \cup FileNames, c \in {"lower", "upper"} }
        \cup { compute_state_checksum(PyDict(<< >>)) }

\* A file is written, or rewritten, outside the checksum functions.
WriteFile ==
    /\ \E n \in FileNames, t \in Texts : disk' = [disk EXCEPT ![n] = Some(encode(t))]
    /\ UNCHANGED <<calc, besidesPure>>

\* A file is removed.
RemoveFile ==
    /\ \E n \in FileNames : disk[n] # None /\ disk' = [disk EXCEPT ![n] = None]
    /\ UNCHANGED <<calc, besidesPure>>

VerifyChecksumCall ==
    /\ \E data \in VerifyData, expected \in ExpectedChecksums :
           calc' = Calc("verify_checksum", <<data, expected>>,
                        verify_checksum(disk, data, expected))
    /\ UNCHANGED <<disk, besidesPure>>

NextVerify ==
    \/ WriteFile
    \/ RemoveFile
    \/ VerifyChecksumCall

----------------------------------------------------------------------------
(* VaultID.to_uri and VaultID.from_uri on strings of characters            *)

\* Bound: the most characters a domain, module or version has.
MaxPart == 2
\* Bound: the most characters a string given to from_uri has after its scheme.
MaxBody == 7

NL == "\n"
InvalidUri == "ValueError: Invalid VaultID URI format"

\* All strings of 1 .. n characters from chars.
StringsOver(chars, n) == UNION { [1 .. k -> chars] : k \in 1 .. n }

\* The domains, modules and versions a VaultID is built with.
Parts == StringsOver({"a", "/", NL}, MaxPart)

\* The strings from_uri is called with: a scheme, then any characters.
Schemes == {<<"A", "M", "O", "S", ":", "/", "/">>, <<"a", "m", "o", "s", ":", "/", "/">>}
UriStrings ==
    { sch \o body : sch \in Schemes, body \in {<< >>} \cup StringsOver({"a", "/", "v", NL}, MaxBody) }

\* The first i with s[i] = c at or after from, or 0.
RECURSIVE find(_, _, _)
find(s, c, from) ==
    IF from > Len(s) THEN 0
    ELSE IF s[from] = c THEN from
    ELSE find(s, c, from + 1)

\* (.+)$ on the rest of the string: one or more characters other than a
\* newline, up to the end of the string or to a newline that ends it.
match_version(rest) ==
    LET nl == find(rest, NL, 1)
    IN  IF rest = << >> THEN None
        ELSE IF nl = 0 THEN Some(rest)
        ELSE IF nl = Len(rest) /\ nl > 1 THEN Some(SubSeq(rest, 1, nl - 1))
        ELSE None

\* re.match(r"^AMOS://([^/]+)/([^/]+)/v(.+)$", uri): the three groups, or None.
\* [^/]+ takes every character up to the next slash, newlines included.
match_groups(uri) ==
    LET scheme == <<"A", "M", "O", "S", ":", "/", "/">>
        s1 == find(uri, "/", Len(scheme) + 1)
        s2 == IF s1 = 0 THEN 0 ELSE find(uri, "/", s1 + 1)
    IN  IF Len(uri) < Len(scheme) \/ SubSeq(uri, 1, Len(scheme)) # scheme THEN None
        ELSE IF s1 = 0 \/ s1 = Len(scheme) + 1 THEN None
        ELSE IF s2 = 0 \/ s2 = s1 + 1 THEN None
        ELSE IF Len(uri) < s2 + 1 \/ uri[s2 + 1] # "v" THEN None
        ELSE LET version == match_version(SubSeq(uri, s2 + 2, Len(uri)))
             IN  IF version = None THEN None
                 ELSE Some(<<SubSeq(uri, Len(scheme) + 1, s1 - 1),
                             SubSeq(uri, s1 + 1, s2 - 1), version[1]>>)

\* VaultID.from_uri
from_uri(uri) ==
    LET match == match_groups(uri)
    IN  IF match = None THEN [raised |-> InvalidUri, value |-> None]
        ELSE [raised |-> NoError,
              value |-> Some([domain |-> match[1][1], module |-> match[1][2],
                              version |-> match[1][3], predecessor |-> None])]

\* A VaultID is built, rendered and the rendering parsed.
RenderParseCall ==
    /\ calc.op = "none"
    /\ \E d \in Parts, m \in Parts, n \in Parts :
           LET v == [domain |-> d, module |-> m, version |-> n, predecessor |-> None]
           IN  calc' = Calc("to_uri", <<v>>, <<to_uri(v), from_uri(to_uri(v))>>)
    /\ UNCHANGED <<disk, besidesPure>>

\* A string is parsed and, when accepted, the VaultID rendered.
ParseRenderCall ==
    /\ calc.op = "none"
    /\ \E s \in UriStrings :
           LET r == from_uri(s)
           IN  calc' = Calc("from_uri", <<s>>,
                            <<r, IF r.raised = NoError THEN Some(to_uri(r.value[1])) ELSE None>>)
    /\ UNCHANGED <<disk, besidesPure>>

NextUri ==
    \/ RenderParseCall
    \/ ParseRenderCall

----------------------------------------------------------------------------
(* create_vault_id: a VaultID with the checksum of its own record          *)

\* Bound: the instants datetime.utcnow() is read at.
MaxInstant == 2

PyNone == [none |-> TRUE]
IsPyNone(v) == DOMAIN v = {"none"}

\* The keys of a VaultID record and of its metadata, in code point order.
KeyOrder == <<"a", "b", "created_at", "domain", "metadata", "module",
              "predecessor", "uri", "version">>

\* What create_vault_id is called with.
IdModules == {<<"S">>, <<"V">>}
IdPredecessors == {None, Some(<<"A", "M", "O", "S", ":", "/", "/", "M", "/", "S", "/", "v", "1">>)}
IdMetadata ==
    {None, Some(PyDict(<< >>)), Some(PyDict(<<<<"a", PyStr("x")>>>>)),
     Some(PyDict(<<<<"a", PyStr("x")>>, <<"b", PyStr("y")>>>>)),
     Some(PyDict(<<<<"b", PyStr("y")>>, <<"a", PyStr("x")>>>>))}
Instants == 1 .. MaxInstant
IdInputs ==
    [domain : Domains, module : IdModules, version : Versions,
     predecessor : IdPredecessors, metadata : IdMetadata, now : Instants]

\* datetime.utcnow().isoformat() + "Z"
isoformat(now) == ToString(now) \o "Z"

\* An Optional value as a JSON value.
OrNone(x, AsValue(_)) == IF x = None THEN PyNone ELSE AsValue(x[1])

\* sorted(dct.items()) for the keys of KeyOrder.
RECURSIVE sorted_by(_, _, _)
sorted_by(items, order, i) ==
    IF i > Len(order) THEN << >>
    ELSE SelectSeq(items, LAMBDA it : it[1] = order[i]) \o sorted_by(items, order, i + 1)

\* ', '.join(parts)
RECURSIVE join_default(_)
join_default(parts) ==
    IF parts = << >> THEN ""
    ELSE IF Len(parts) = 1 THEN parts[1]
    ELSE parts[1] \o ", " \o join_default(Tail(parts))

\* A mutant of to_dict: the record does not carry created_at.
to_dict_no_created_at(v) ==
    PyDict(<<<<"uri", PyStr(StrOf(to_uri(v)))>>,
             <<"domain", PyStr(StrOf(v.domain))>>,
             <<"module", PyStr(StrOf(v.module))>>,
             <<"version", PyStr(StrOf(v.version))>>,
             <<"predecessor", OrNone(v.predecessor, LAMBDA p : PyStr(StrOf(p)))>>,
             <<"checksum", OrNone(v.checksum, LAMBDA c : c)>>,
             <<"metadata", OrNone(v.metadata, LAMBDA m : m)>>>>)

\* VaultID.to_dict
to_dict(v) ==
    PyDict(<<<<"uri", PyStr(StrOf(to_uri(v)))>>,
             <<"domain", PyStr(StrOf(v.domain))>>,
             <<"module", PyStr(StrOf(v.module))>>,
             <<"version", PyStr(StrOf(v.version))>>,
             <<"predecessor", OrNone(v.predecessor, LAMBDA p : PyStr(StrOf(p)))>>,
             <<"checksum", OrNone(v.checksum, LAMBDA c : c)>>,
             <<"created_at", PyStr(v.created_at)>>,
             <<"metadata", OrNone(v.metadata, LAMBDA m : m)>>>>)

\* vault_dict.pop("checksum", None)
pop(d, key) == PyDict(SelectSeq(d.items, LAMBDA it : it[1] # key))

\* json.dumps(vault_dict, sort_keys=True), with the default separators.
RECURSIVE json_dumps_default(_)
json_dumps_default(v) ==
    IF IsPyNone(v) THEN "null"
    ELSE IF IsPyStr(v) THEN "\"" \o v.str \o "\""
    ELSE LET items == sorted_by(v.items, KeyOrder, 1)
         IN  "{" \o join_default([i \in 1 .. Len(items) |->
                        "\"" \o items[i][1] \o "\": " \o json_dumps_default(items[i][2])])
                 \o "}"

\* The VaultID dataclass as create_vault_id builds it: __post_init__ stamps
\* created_at with the instant of construction.
NewVaultID(domain, module, version, predecessor, metadata, now) ==
    [domain |-> domain, module |-> module, version |-> version,
     predecessor |-> predecessor, checksum |-> None,
     created_at |-> isoformat(now), metadata |-> metadata]

\* create_vault_id, called at the instant now.
create_vault_id(domain, module, version, predecessor, metadata, now) ==
    LET vault_id == NewVaultID(domain, module, version, predecessor, metadata, now)
        checksum_content == json_dumps_default(pop(to_dict(vault_id), "checksum"))
    IN  [vault_id EXCEPT !.checksum = Some(hexdigest(encode(checksum_content)))]

\* create_vault_id is called twice.
CreateVaultIdCall ==
    /\ calc.op = "none"
    /\ \E i \in IdInputs, j \in IdInputs :
           calc' = Calc("create_vault_id", <<i, j>>,
                        <<create_vault_id(i.domain, i.module, i.version, i.predecessor,
                                          i.metadata, i.now),
                          create_vault_id(j.domain, j.module, j.version, j.predecessor,
                                          j.metadata, j.now)>>)
    /\ UNCHANGED <<disk, besidesPure>>

NextVaultId == CreateVaultIdCall

----------------------------------------------------------------------------
(* VaultManager: artifacts                                                 *)

\* Bound: the most artifacts the manager holds.
MaxArtifacts == 2
\* The width of the count in an auto-generated id: {count:04d}.
IdWidth == 4

ArtifactTypes == {"memory"}
\* The content an artifact is created with or changed to: a dict, the string
\* that reads like the dict's JSON, another string.
ArtifactContents ==
    {PyDict(<<<<"a", PyStr("x")>>>>),
     PyStr(json_dumps_default(PyDict(<<<<"a", PyStr("x")>>>>))),
     PyStr("x")}
\* The artifact_id argument of create_artifact.
SuppliedIds == {None, Some("memory_0001")}
\* The ids artifacts are looked up by.
LookupIds == {"memory_0000", "memory_0001", "memory_0002", "k"}

\* format(count, '04d'): the digits, zero-filled to the width.
RECURSIVE zfill(_, _)
zfill(digits, width) == IF Len(digits) >= width THEN digits ELSE zfill("0" \o digits, width)

\* f"{artifact_type}_{len(self.artifacts):04d}"
auto_id(artifact_type, count) == artifact_type \o "_" \o zfill(ToString(count), IdWidth)

\* VaultManager.generate_checksum: a dict is hashed as its JSON with sorted
\* keys, anything else as str(content).
generate_checksum(content) ==
    hexdigest(encode(IF IsPyDict(content) THEN json_dumps_default(content) ELSE content.str))

\* The artifact dict; vault_id, created_at and metadata are read by none of
\* the methods modelled and are left out.
Artifact(artifact_id, artifact_type, content, checksum) ==
    [artifact_id |-> artifact_id, artifact_type |-> artifact_type,
     content |-> content, checksum |-> checksum]

\* VaultManager.create_artifact: the artifact made, which is appended.
create_artifact(arts, content, artifact_type, artifact_id) ==
    Artifact(IF artifact_id = None THEN auto_id(artifact_type, Len(arts)) ELSE artifact_id[1],
             artifact_type, content, generate_checksum(content))

\* VaultManager.get_artifact_by_id: the first artifact with the id, or None.
RECURSIVE get_artifact_from(_, _, _)
get_artifact_from(arts, artifact_id, i) ==
    IF i > Len(arts) THEN None
    ELSE IF arts[i].artifact_id = artifact_id THEN Some(arts[i])
    ELSE get_artifact_from(arts, artifact_id, i + 1)

get_artifact_by_id(arts, artifact_id) == get_artifact_from(arts, artifact_id, 1)

\* VaultManager.verify_artifact_integrity
verify_artifact_integrity(arts, artifact_id) ==
    LET artifact == get_artifact_by_id(arts, artifact_id)
    IN  IF artifact = None THEN FALSE
        ELSE artifact[1].checksum = generate_checksum(artifact[1].content)

VmCall(op, args, before, raised, result) ==
    [op |-> op, args |-> args, before |-> before, raised |-> raised, result |-> result]

\* VaultManager.__init__
InitVault ==
    /\ artifacts = << >>
    /\ created = << >>
    /\ lineage_chains = << >>
    /\ vmCall = VmCall("new", None, None, NoError, None)

CreateArtifactCall ==
    /\ Len(artifacts) < MaxArtifacts
    /\ \E content \in ArtifactContents, type \in ArtifactTypes, id \in SuppliedIds :
           LET artifact == create_artifact(artifacts, content, type, id)
           IN  /\ artifacts' = Append(artifacts, artifact)
               /\ created' = Append(created, content)
               /\ vmCall' = VmCall("create_artifact", <<content, type, id>>, None,
                                   NoError, Some(artifact))
    /\ UNCHANGED <<lineage_chains, besidesVm>>

\* The holder of an artifact dict replaces its content.
ReplaceContent ==
    /\ \E i \in 1 .. Len(artifacts), content \in ArtifactContents :
           /\ content # artifacts[i].content
           /\ artifacts' = [artifacts EXCEPT ![i].content = content]
    /\ vmCall' = VmCall("replace_content", None, None, NoError, None)
    /\ UNCHANGED <<created, lineage_chains, besidesVm>>

GetArtifactCall ==
    /\ \E id \in LookupIds :
           vmCall' = VmCall("get_artifact_by_id", <<id>>, None, NoError,
                            get_artifact_by_id(artifacts, id))
    /\ UNCHANGED <<artifacts, created, lineage_chains, besidesVm>>

VerifyArtifactCall ==
    /\ \E id \in LookupIds :
           vmCall' = VmCall("verify_artifact_integrity", <<id>>, None, NoError,
                            Some(verify_artifact_integrity(artifacts, id)))
    /\ UNCHANGED <<artifacts, created, lineage_chains, besidesVm>>

NextArtifacts ==
    \/ CreateArtifactCall
    \/ ReplaceContent
    \/ GetArtifactCall
    \/ VerifyArtifactCall

----------------------------------------------------------------------------
(* VaultManager: lineage tracking                                          *)

\* Bound: the most elements a tracked chain holds.
MaxTracked == 2

\* The VaultIDs track_lineage is called with: one stream, linked or not.
TrackIDs == TamperIDs
\* The chain_id argument of track_lineage.
ChainIds == {None, Some(<<"c">>)}

\* f"{vault_id.domain}/{vault_id.module}"
default_chain_id(vault_id) == vault_id.domain \o <<"/">> \o vault_id.module

\* A mutant of track_lineage: the element is added without LineageChain.append.
track_lineage_unchecked(chains, vault_id, chain_id) ==
    LET id == IF chain_id = None THEN default_chain_id(vault_id) ELSE chain_id[1]
        had == IF DictHas(chains, id) THEN DictGet(chains, id)[1] ELSE << >>
    IN  [raised |-> NoError, lineage_chains |-> DictSet(chains, id, Append(had, vault_id))]

\* VaultManager.track_lineage: the chain is made when missing, then the
\* element is appended to it; the chain made stays when append raises.
track_lineage(chains, vault_id, chain_id) ==
    LET id == IF chain_id = None THEN default_chain_id(vault_id) ELSE chain_id[1]
        with_chain == IF DictHas(chains, id) THEN chains ELSE DictSet(chains, id, << >>)
        r == append(DictGet(with_chain, id)[1], vault_id)
    IN  [raised |-> r.raised, lineage_chains |-> DictSet(with_chain, id, r.vault_ids)]

TrackLineageCall ==
    /\ \E v \in TrackIDs, id \in ChainIds :
           LET r == track_lineage(lineage_chains, v, id)
           IN  /\ \A i \in 1 .. Len(r.lineage_chains) : Len(r.lineage_chains[i][2]) <= MaxTracked
               /\ lineage_chains' = r.lineage_chains
               /\ vmCall' = VmCall("track_lineage", <<v, id>>, Some(lineage_chains),
                                   r.raised, None)
    /\ UNCHANGED <<artifacts, created, besidesVm>>

\* VaultManager.get_lineage_chain
GetLineageChainCall ==
    /\ \E id \in {<<"c">>, <<"M", "/", "S">>} :
           vmCall' = VmCall("get_lineage_chain", <<id>>, Some(lineage_chains), NoError,
                            DictGet(lineage_chains, id))
    /\ UNCHANGED <<artifacts, created, lineage_chains, besidesVm>>

NextLineage ==
    \/ TrackLineageCall
    \/ GetLineageChainCall

----------------------------------------------------------------------------
(* MetaCognitionEngine: wisdom gates                                       *)

\* Bound: the most wisdom_gate calls made on one engine.
MaxGateCalls == 2

WisdomGateTypes == {"ETHICAL", "SOVEREIGNTY", "PRIVACY", "CONTINUITY", "SAFETY"}
\* The gate types the calls are made with.
CalledGateTypes == {"ETHICAL", "PRIVACY", "SAFETY"}
\* The context argument: None, or flags by name.
GateContexts ==
    {None, Some([consent |-> TRUE, transparent |-> TRUE]), Some([irreversible |-> TRUE])}
Evaluator == "MetaCognitionEngine"

\* The WisdomGateResult dataclass; rationale and recommendations follow from
\* status and concerns, evaluated_at is a timestamp, and they are left out.
WisdomGateResult(gate_type, status, concerns, evaluated_by) ==
    [gate_type |-> gate_type, status |-> status, concerns |-> concerns,
     evaluated_by |-> evaluated_by]

\* The functions registered as custom gates, by name: each returns a result
\* of its own and does not touch the engine.
CustomGates == {"custom_pass", "custom_block"}
call_custom(gate_function, decision, context) ==
    WisdomGateResult("SAFETY", IF gate_function = "custom_pass" THEN "PASS" ELSE "BLOCK",
                     << >>, None)

\* context.get(key, default)
ctx_get(context, key, default) == IF key \in DOMAIN context THEN context[key] ELSE default

\* The concerns whose condition holds, in order.
Concerns(checks) ==
    LET held == SelectSeq(checks, LAMBDA c : c[1])
    IN  [i \in 1 .. Len(held) |-> held[i][2]]

_ethical_gate(decision, context, evaluated_by) ==
    LET concerns == Concerns(<<
            <<~ctx_get(context, "consent", FALSE), "User consent not explicitly obtained">>,
            <<~ctx_get(context, "transparent", FALSE), "Decision process not transparent to user">>>>)
    IN  WisdomGateResult("ETHICAL",
                         IF Len(concerns) > 1 THEN "BLOCK"
                         ELSE IF concerns # << >> THEN "WARN" ELSE "PASS",
                         concerns, Some(evaluated_by))

_sovereignty_gate(decision, context, evaluated_by) ==
    LET concerns == Concerns(<<
            <<~ctx_get(context, "user_control", TRUE), "User loses control over their data">>,
            <<ctx_get(context, "vendor_lock", FALSE), "Creates vendor lock-in">>>>)
    IN  WisdomGateResult("SOVEREIGNTY", IF concerns # << >> THEN "BLOCK" ELSE "PASS",
                         concerns, Some(evaluated_by))

\* "not encrypted" in str(concerns): only the first concern has these words.
_privacy_gate(decision, context, evaluated_by) ==
    LET unencrypted == ctx_get(context, "contains_sensitive_data", FALSE)
                           /\ ~ctx_get(context, "encrypted", FALSE)
        concerns == Concerns(<<
            <<unencrypted, "Sensitive data not encrypted">>,
            <<~ctx_get(context, "minimal_data", TRUE), "Collects more data than necessary">>>>)
    IN  WisdomGateResult("PRIVACY",
                         IF unencrypted THEN "BLOCK"
                         ELSE IF concerns # << >> THEN "WARN" ELSE "PASS",
                         concerns, Some(evaluated_by))

_continuity_gate(decision, context, evaluated_by) ==
    LET concerns == Concerns(<<
            <<~ctx_get(context, "checksummed", FALSE), "No checksum verification for state integrity">>,
            <<~ctx_get(context, "lineage_tracked", TRUE), "Lineage not tracked - continuity may break">>>>)
    IN  WisdomGateResult("CONTINUITY", IF concerns # << >> THEN "WARN" ELSE "PASS",
                         concerns, Some(evaluated_by))

\* "Irreversible" in str(concerns): only the first concern has this word.
_safety_gate(decision, context, evaluated_by) ==
    LET unconfirmed == ctx_get(context, "irreversible", FALSE)
                           /\ ~ctx_get(context, "confirmed", FALSE)
        concerns == Concerns(<<
            <<unconfirmed, "Irreversible action without confirmation">>,
            <<ctx_get(context, "data_loss_risk", FALSE), "Risk of data loss">>>>)
    IN  WisdomGateResult("SAFETY",
                         IF unconfirmed THEN "BLOCK"
                         ELSE IF concerns # << >> THEN "WARN" ELSE "PASS",
                         concerns, Some(evaluated_by))

\* The default gate of a type, or the PENDING result for an unknown type.
default_gate(gate_type, decision, context, evaluated_by) ==
    IF gate_type = "ETHICAL" THEN _ethical_gate(decision, context, evaluated_by)
    ELSE IF gate_type = "SOVEREIGNTY" THEN _sovereignty_gate(decision, context, evaluated_by)
    ELSE IF gate_type = "PRIVACY" THEN _privacy_gate(decision, context, evaluated_by)
    ELSE IF gate_type = "CONTINUITY" THEN _continuity_gate(decision, context, evaluated_by)
    ELSE IF gate_type = "SAFETY" THEN _safety_gate(decision, context, evaluated_by)
    ELSE WisdomGateResult(gate_type, "PENDING", << >>, Some(evaluated_by))

\* MetaCognitionEngine.wisdom_gate: a custom gate's result is returned at
\* once; a default gate's result is appended to gate_results and returned.
wisdom_gate(results, customs, gate_type, decision, context, evaluated_by) ==
    LET ctx == IF context = None THEN << >> ELSE context[1]
    IN  IF DictHas(customs, gate_type)
        THEN [result |-> call_custom(DictGet(customs, gate_type)[1], decision, ctx),
              gate_results |-> results]
        ELSE LET result == default_gate(gate_type, decision, ctx, evaluated_by)
             IN  [result |-> result, gate_results |-> Append(results, result)]

\* MetaCognitionEngine.get_summary: the count of gate evaluations and the
\* count per gate type and status; insights, assessments and recent_blocks
\* are left out.
get_gate_summary(results) ==
    [total_gate_evaluations |-> Len(results),
     gate_statistics |->
         [k \in { <<results[i].gate_type, results[i].status>> : i \in 1 .. Len(results) } |->
             Cardinality({ i \in 1 .. Len(results) :
                             <<results[i].gate_type, results[i].status>> = k })]]

GateCall(op, args, before, result) ==
    [op |-> op, args |-> args, before |-> before, result |-> result]

\* MetaCognitionEngine.__init__
InitGates ==
    /\ gate_results = << >>
    /\ custom_gates = << >>
    /\ gateCalls = 0
    /\ gateCall = GateCall("new", None, << >>, None)

RegisterCustomGateCall ==
    /\ \E type \in {"SAFETY"}, fn \in CustomGates :
           /\ custom_gates' = DictSet(custom_gates, type, fn)
           /\ gateCall' = GateCall("register_custom_gate", <<type, fn>>, gate_results, None)
    /\ UNCHANGED <<gate_results, gateCalls, besidesGate>>

WisdomGateCall ==
    /\ gateCalls < MaxGateCalls
    /\ \E type \in CalledGateTypes, context \in GateContexts :
           LET out == wisdom_gate(gate_results, custom_gates, type, "decision", context, Evaluator)
           IN  /\ gate_results' = out.gate_results
               /\ gateCall' = GateCall("wisdom_gate", <<type, context>>, gate_results,
                                       Some(out.result))
    /\ gateCalls' = gateCalls + 1
    /\ UNCHANGED <<custom_gates, besidesGate>>

GateSummaryCall ==
    /\ gateCall' = GateCall("get_summary", None, gate_results,
                            Some(get_gate_summary(gate_results)))
    /\ UNCHANGED <<gate_results, custom_gates, gateCalls, besidesGate>>

NextGates ==
    \/ RegisterCustomGateCall
    \/ WisdomGateCall
    \/ GateSummaryCall

----------------------------------------------------------------------------
(* JSONFileStorage: a process that dies while a collection is rewritten    *)

StorageReadError == "StorageReadError"

\* A collection file on disk: the members written so far, and whether the
\* closing brace of the JSON object has been written.
Document(members, closed) == [members |-> members, closed |-> closed]

\* A mutant of open_w: the file keeps what it held until the write is over.
open_w_keep(file) == IF file = None THEN Some(Document(<< >>, TRUE)) ELSE file

\* open(file_path, 'w'): the file is created or truncated to nothing.
open_w(file) == Some(Document(<< >>, FALSE))

\* json.dump writes the object piece by piece: here, the n-th member.
json_dump_member(file, members, n) ==
    Some(Document(Append(file[1].members, members[n]), file[1].closed))

\* json.dump writes the closing brace last; the file is closed after it.
json_dump_end(file) == Some(Document(file[1].members, TRUE))

\* json.load raises JSONDecodeError on a document that does not end.
Corrupt(ds, collection) == ds[collection] # None /\ ~ds[collection][1].closed

\* The files as _load_collection parses them when none is corrupt.
FilesOf(ds) ==
    [c \in DOMAIN ds |-> IF ds[c] = None THEN None ELSE Some(ds[c][1].members)]

\* _load_collection turns JSONDecodeError into StorageReadError; the store
\* methods let it through.  create checks the id field before it loads.
create_from_disk(ds, collection, record) ==
    IF id_field(collection) \in DOMAIN record /\ Corrupt(ds, collection)
    THEN StoreOutcome(StorageReadError, None, FilesOf(ds))
    ELSE create(FilesOf(ds), collection, record)

read_from_disk(ds, collection, record_id) ==
    IF Corrupt(ds, collection)
    THEN StoreOutcome(StorageReadError, None, FilesOf(ds))
    ELSE read(FilesOf(ds), collection, record_id)

update_from_disk(ds, collection, record_id, updates) ==
    IF Corrupt(ds, collection)
    THEN StoreOutcome(StorageReadError, None, FilesOf(ds))
    ELSE update(FilesOf(ds), collection, record_id, updates)

delete_from_disk(ds, collection, record_id) ==
    IF Corrupt(ds, collection)
    THEN StoreOutcome(StorageReadError, None, FilesOf(ds))
    ELSE delete(FilesOf(ds), collection, record_id)

\* The records a mutation is called with, and the ids it targets.
CrashRecords == WriterRecords
CrashIds == Ids

DiskCall(op, collection, record_id, raised, result) ==
    [op |-> op, collection |-> collection, record_id |-> record_id,
     raised |-> raised, result |-> result]

\* The records of a collection other than the targeted one, by their place.
Untargeted(collection, data, record_id) ==
    [k \in { <<collection, id>> : id \in DictKeys(data) \ {record_id} } |->
        DictGet(data, k[2])[1]]

InitCrash ==
    /\ docs = [c \in Collections |-> None]
    /\ rewrite = None
    /\ survivors = << >>
    /\ diskCall = DiskCall("new", None, None, NoError, None)

\* A mutation that gets as far as _save_collection opens the file for
\* writing; one that raises or finds nothing to change returns at once.
MutationStep(op, collection, record_id, out, saves) ==
    /\ rewrite = None
    /\ IF saves
       THEN /\ docs' = [docs EXCEPT ![collection] = open_w(docs[collection])]
            /\ rewrite' = Some([collection |-> collection, record_id |-> record_id,
                                before |-> _load_collection(FilesOf(docs), collection),
                                members |-> out.files[collection][1], written |-> 0,
                                call |-> DiskCall(op, collection, record_id[1],
                                                  out.raised, out.result)])
            /\ UNCHANGED diskCall
       ELSE /\ diskCall' = DiskCall(op, collection, record_id[1], out.raised, out.result)
            /\ UNCHANGED <<docs, rewrite>>
    /\ UNCHANGED <<survivors, besidesCrash>>

DiskCreateCall ==
    \E c \in Collections, r \in CrashRecords :
        LET out == create_from_disk(docs, c, r)
        IN  MutationStep("create", c,
                         IF out.result = None THEN Some(None) ELSE out.result,
                         out, out.raised = NoError)

DiskUpdateCall ==
    \E c \in Collections, id \in CrashIds, u \in Updates :
        LET out == update_from_disk(docs, c, id, u)
        IN  MutationStep("update", c, Some(id), out,
                         out.raised = NoError /\ out.result # None)

DiskDeleteCall ==
    \E c \in Collections, id \in CrashIds :
        LET out == delete_from_disk(docs, c, id)
        IN  MutationStep("delete", c, Some(id), out,
                         out.raised = NoError /\ out.result = Some(TRUE))

\* json.dump writes the next member of the collection.
DumpMember ==
    /\ rewrite # None
    /\ rewrite[1].written < Len(rewrite[1].members)
    /\ docs' = [docs EXCEPT ![rewrite[1].collection] =
                   json_dump_member(docs[rewrite[1].collection], rewrite[1].members,
                                    rewrite[1].written + 1)]
    /\ rewrite' = Some([rewrite[1] EXCEPT !.written = @ + 1])
    /\ UNCHANGED <<survivors, diskCall, besidesCrash>>

\* json.dump ends the document, the file is closed and the method returns.
DumpEnd ==
    /\ rewrite # None
    /\ rewrite[1].written = Len(rewrite[1].members)
    /\ docs' = [docs EXCEPT ![rewrite[1].collection] =
                   json_dump_end(docs[rewrite[1].collection])]
    /\ diskCall' = rewrite[1].call
    /\ rewrite' = None
    /\ UNCHANGED <<survivors, besidesCrash>>

\* The process dies between open and the end of the write: the file stays
\* as far as it was written.  survivors keeps the records the collection
\* held before the call, other than the one the call was about.
Crash ==
    /\ rewrite # None
    /\ rewrite' = None
    /\ survivors' =
           LET u == Untargeted(rewrite[1].collection, rewrite[1].before,
                               rewrite[1].record_id[1])
           IN  [k \in DOMAIN survivors \cup DOMAIN u |->
                   IF k \in DOMAIN u THEN u[k] ELSE survivors[k]]
    /\ diskCall' = DiskCall("crash", rewrite[1].collection, rewrite[1].record_id[1],
                            NoError, None)
    /\ UNCHANGED <<docs, besidesCrash>>

\* A read by a process started later.
DiskReadCall ==
    /\ rewrite = None
    /\ \E c \in Collections, id \in CrashIds :
           LET out == read_from_disk(docs, c, id)
           IN  diskCall' = DiskCall("read", c, id, out.raised, out.result)
    /\ UNCHANGED <<docs, rewrite, survivors, besidesCrash>>

NextCrash ==
    \/ DiskCreateCall
    \/ DiskUpdateCall
    \/ DiskDeleteCall
    \/ DumpMember
    \/ DumpEnd
    \/ Crash
    \/ DiskReadCall

----------------------------------------------------------------------------
(* RateLimiter                                                             *)

\* Bounds: the latest reading of the clock, and the most calls made on the
\* limiter.
MaxNow == 2
MaxLimiterEvents == 3

\* The limiter's arguments, and the keys: "global" is the decorator's key
\* when it is given no key_func.
MaxCallsChoices == {1, 2}
TimeWindows == {1, 2}
LimiterKeys == {"global", "user"}
CryptoOperationError == "CryptoOperationError"

\* RateLimiter.__init__
RateLimiter(max_calls, time_window) ==
    [max_calls |-> max_calls, time_window |-> time_window, calls |-> << >>]

\* self.calls[key] = value
calls_set(calls, key, value) ==
    [k \in DOMAIN calls \cup {key} |-> IF k = key THEN value ELSE calls[k]]

\* The calls of a key still inside the window at time t.
in_window(lim, held, t) == SelectSeq(held, LAMBDA call_time : t - call_time < lim.time_window)

\* A mutant of is_allowed: the limit is compared with > and not >=.
is_allowed_one_more(lim, key, t) ==
    LET held == IF key \in DOMAIN lim.calls THEN lim.calls[key] ELSE << >>
        kept == in_window(lim, held, t)
    IN  IF Len(kept) > lim.max_calls
        THEN [result |-> FALSE, limiter |-> [lim EXCEPT !.calls = calls_set(@, key, kept)]]
        ELSE [result |-> TRUE,
              limiter |-> [lim EXCEPT !.calls = calls_set(@, key, Append(kept, t))]]

\* RateLimiter.is_allowed at time t: old calls are dropped, the call is
\* refused when max_calls remain, and recorded otherwise.
is_allowed(lim, key, t) ==
    LET held == IF key \in DOMAIN lim.calls THEN lim.calls[key] ELSE << >>
        kept == in_window(lim, held, t)
    IN  IF Len(kept) >= lim.max_calls
        THEN [result |-> FALSE, limiter |-> [lim EXCEPT !.calls = calls_set(@, key, kept)]]
        ELSE [result |-> TRUE,
              limiter |-> [lim EXCEPT !.calls = calls_set(@, key, Append(kept, t))]]

\* RateLimiter.reset
reset(lim, key) ==
    [lim EXCEPT !.calls = [k \in DOMAIN lim.calls \ {key} |-> lim.calls[k]]]

LimCall(op, key, at, before, raised, result) ==
    [op |-> op, key |-> key, at |-> at, before |-> before, raised |-> raised,
     result |-> result]

LimEvent(op, key, time, allowed) ==
    [op |-> op, key |-> key, time |-> time, allowed |-> allowed]

\* No limiter yet; time.time() reads wallclock.
InitLimiter ==
    /\ limiter = None
    /\ wallclock = 0
    /\ limLog = << >>
    /\ limCall = LimCall("none", None, 0, None, NoError, None)

NewRateLimiter ==
    /\ limiter = None
    /\ \E max_calls \in MaxCallsChoices, time_window \in TimeWindows :
           limiter' = Some(RateLimiter(max_calls, time_window))
    /\ limCall' = LimCall("new", None, wallclock, None, NoError, None)
    /\ UNCHANGED <<wallclock, limLog, besidesLimiter>>

IsAllowedCall ==
    /\ limiter # None
    /\ Len(limLog) < MaxLimiterEvents
    /\ \E key \in LimiterKeys :
           LET out == is_allowed(limiter[1], key, wallclock)
           IN  /\ limiter' = Some(out.limiter)
               /\ limLog' = Append(limLog, LimEvent("is_allowed", key, wallclock, out.result))
               /\ limCall' = LimCall("is_allowed", Some(key), wallclock, limiter, NoError,
                                     Some(out.result))
    /\ UNCHANGED <<wallclock, besidesLimiter>>

\* A function decorated with rate_limit(limiter): the key is key_func's or
\* "global"; a refused call raises and the function is not run.
RateLimitedCall ==
    /\ limiter # None
    /\ Len(limLog) < MaxLimiterEvents
    /\ \E key \in LimiterKeys :
           LET out == is_allowed(limiter[1], key, wallclock)
           IN  /\ limiter' = Some(out.limiter)
               /\ limLog' = Append(limLog, LimEvent("is_allowed", key, wallclock, out.result))
               /\ limCall' = LimCall("rate_limit", Some(key), wallclock, limiter,
                                     IF out.result THEN NoError ELSE CryptoOperationError,
                                     Some(out.result))
    /\ UNCHANGED <<wallclock, besidesLimiter>>

ResetCall ==
    /\ limiter # None
    /\ Len(limLog) < MaxLimiterEvents
    /\ \E key \in LimiterKeys :
           /\ limiter' = Some(reset(limiter[1], key))
           /\ limLog' = Append(limLog, LimEvent("reset", key, wallclock, FALSE))
           /\ limCall' = LimCall("reset", Some(key), wallclock, limiter, NoError, None)
    /\ UNCHANGED <<wallclock, besidesLimiter>>

\* Time passes: a later call reads a later time.
TimePasses ==
    /\ limiter # None
    /\ wallclock < MaxNow
    /\ wallclock' = wallclock + 1
    /\ UNCHANGED <<limiter, limLog, limCall, besidesLimiter>>

NextLimiter ==
    \/ NewRateLimiter
    \/ IsAllowedCall
    \/ RateLimitedCall
    \/ ResetCall
    \/ TimePasses

----------------------------------------------------------------------------
(* Specifications, one per component; the other components stay as built.  *)

Init == InitChain /\ InitEnforcer /\ InitStore /\ InitWriters /\ InitPure
            /\ InitVault /\ InitGates /\ InitCrash /\ InitLimiter

SpecChain == Init /\ [][NextChain]_vars

SpecEnforcer == Init /\ [][NextEnforcer]_vars

SpecStore == Init /\ [][NextStore]_vars

SpecQuery == Init /\ [][NextQuery]_vars

SpecWriters == Init /\ [][NextWriters]_vars

SpecTamper == Init /\ [][NextTamper]_vars

SpecChecksum == Init /\ [][NextChecksum]_vars

SpecVerify == Init /\ [][NextVerify]_vars

SpecUri == Init /\ [][NextUri]_vars

SpecVaultId == Init /\ [][NextVaultId]_vars

SpecArtifacts == Init /\ [][NextArtifacts]_vars

SpecLineage == Init /\ [][NextLineage]_vars

SpecGates == Init /\ [][NextGates]_vars

SpecCrash == Init /\ [][NextCrash]_vars

SpecLimiter == Init /\ [][NextLimiter]_vars

----------------------------------------------------------------------------
(* Claims about LineageChain, checked under SpecChain                      *)

\* C1: append on a non-empty chain raises the lineage break whenever the
\* record's predecessor differs from the URI of the last element, and then the
\* chain is exactly as it was; when the predecessor equals that URI the record
\* becomes the new last element and the length grows by exactly one.
C1_AppendContract ==
    (chainCall.op = "append" /\ chainCall.before # << >>) =>
        LET v == chainCall.arg[1]
            b == chainCall.before
        IN  IF v.predecessor # Some(to_uri(Last(b)))
            THEN chainCall.raised = LineageBreak /\ vault_ids = b
            ELSE /\ chainCall.raised = NoError
                 /\ Len(vault_ids) = Len(b) + 1
                 /\ Last(vault_ids) = v

\* C1 witness: an append was refused on a chain of two elements.
C1_Witness ==
    /\ chainCall.op = "append"
    /\ Len(chainCall.before) = 2
    /\ chainCall.raised = LineageBreak

\* C2: in every state reached by append calls, accepted or refused, every
\* element after the first names the URI of the element before it, and
\* verify_integrity returns true.
C2_ChainLinked ==
    /\ \A i \in 2 .. Len(vault_ids) :
           vault_ids[i].predecessor = Some(to_uri(vault_ids[i - 1]))
    /\ verify_integrity(vault_ids) = TRUE

\* C2 witness: a chain of three elements, after an append that was refused.
C2_Witness ==
    /\ Len(vault_ids) = 3
    /\ chainCall.op = "append"
    /\ chainCall.raised = LineageBreak

----------------------------------------------------------------------------
(* Claims about TruthStateEnforcer, checked under SpecEnforcer             *)

IsDrift(a) == a.tag = "DRIFT"
DriftAssertions == SelectSeq(assertions, IsDrift)

\* The drift entry e and the assertion a record the same drift.
SameDrift(e, a) ==
    /\ a.source = e.source
    /\ a.metadata # None
    /\ a.metadata[1].expected_checksum = e.expected_checksum
    /\ a.metadata[1].actual_checksum = e.actual_checksum
    /\ a.metadata[1].context = e.context
    /\ a.verified_at = e.detected_at

\* C3: the drift log and the DRIFT-tagged assertions are 1:1: as many of one
\* as of the other, and the i-th of each carry the same source, expected
\* checksum, actual checksum, context and timestamp.
C3_DriftLogsPaired ==
    /\ Len(DriftAssertions) = Len(drift_log)
    /\ \A i \in 1 .. Len(drift_log) : SameDrift(drift_log[i], DriftAssertions[i])

\* C3 witness: two different drifts were logged at different times.
C3_Witness ==
    /\ Len(drift_log) = 2
    /\ drift_log[1].expected_checksum # drift_log[2].expected_checksum
    /\ drift_log[1].detected_at # drift_log[2].detected_at

\* C4: detect_drift(x, y, source, context) with x # y returns true and appends
\* exactly one entry to the drift log and exactly one DRIFT assertion to the
\* assertion log, both recording x as expected, y as actual, the source and
\* the context; nothing else is added.
C4_DriftRecorded ==
    (/\ enfCall.op = "detect_drift"
     /\ enfCall.args.expected_checksum # enfCall.args.actual_checksum) =>
        /\ enfCall.result = Some(TRUE)
        /\ Len(drift_log) = Len(enfCall.before.drift_log) + 1
        /\ Len(assertions) = Len(enfCall.before.assertions) + 1
        /\ Front(drift_log) = enfCall.before.drift_log
        /\ Front(assertions) = enfCall.before.assertions
        /\ Last(drift_log).expected_checksum = enfCall.args.expected_checksum
        /\ Last(drift_log).actual_checksum = enfCall.args.actual_checksum
        /\ Last(drift_log).source = enfCall.args.source
        /\ Last(drift_log).context = enfCall.args.context
        /\ Last(assertions).tag = "DRIFT"
        /\ SameDrift(Last(drift_log), Last(assertions))

\* C4 witness: a mismatch with a context was reported after an earlier assertion.
C4_Witness ==
    /\ enfCall.op = "detect_drift"
    /\ enfCall.args.expected_checksum # enfCall.args.actual_checksum
    /\ enfCall.args.context # None
    /\ enfCall.before.assertions # << >>
    /\ enfCall.result = Some(TRUE)

\* C5: detect_drift(x, x, source) returns false and leaves both logs as they
\* were, whatever the enforcer holds.
C5_NoDriftNoEffect ==
    (/\ enfCall.op = "detect_drift"
     /\ enfCall.args.expected_checksum = enfCall.args.actual_checksum) =>
        /\ enfCall.result = Some(FALSE)
        /\ assertions = enfCall.before.assertions
        /\ drift_log = enfCall.before.drift_log

\* C5 witness: equal checksums were compared on an enforcer that holds a drift.
C5_Witness ==
    /\ enfCall.op = "detect_drift"
    /\ enfCall.args.expected_checksum = enfCall.args.actual_checksum
    /\ drift_log # << >>
    /\ enfCall.result = Some(FALSE)

\* C6: both logs are append-only: over every step of the enforcer, each log
\* before the step is a prefix of the log after it.
C6_AppendOnly ==
    [][IsPrefix(assertions, assertions') /\ IsPrefix(drift_log, drift_log')]_vars

\* C6 witness: a call returned on an enforcer whose assertion log already held
\* an entry, and the log has grown since.
C6_Witness ==
    /\ enfCall.before.assertions # << >>
    /\ Len(assertions) > Len(enfCall.before.assertions)

\* C7: every assertion in the log obeys the rule of its tag: a FACT has a
\* source that is present and not empty, an ESTIMATE has a confidence that is
\* present and lies in [0, 1].
C7_TagRules ==
    \A i \in 1 .. Len(assertions) :
        LET a == assertions[i]
        IN  /\ a.tag = "FACT" => (a.source # None /\ a.source # Some(""))
            /\ a.tag = "ESTIMATE" =>
                   /\ a.confidence # None
                   /\ ConfidenceZero <= a.confidence[1]
                   /\ a.confidence[1] <= ConfidenceOne

\* C7 witness: the log holds a FACT and an ESTIMATE of confidence 1.0.
C7_Witness ==
    /\ \E i \in 1 .. Len(assertions) : assertions[i].tag = "FACT"
    /\ \E i \in 1 .. Len(assertions) :
           assertions[i].tag = "ESTIMATE" /\ assertions[i].confidence = Some(ConfidenceOne)

\* The arguments the constructor must refuse.
BadFact == enfCall.op = "assert_fact" /\ enfCall.args.source \in {None, Some("")}
BadEstimate ==
    /\ enfCall.op = "assert_estimate"
    /\ \/ enfCall.args.confidence = None
       \/ enfCall.args.confidence[1] < ConfidenceZero
       \/ enfCall.args.confidence[1] > ConfidenceOne

\* C8: a refused assertion changes nothing: assert_fact with an absent or
\* empty source and assert_estimate with an absent or out-of-range confidence
\* raise ValueError and append to neither log.
C8_RejectedNoEffect ==
    (BadFact \/ BadEstimate) =>
        /\ enfCall.raised \in {FactError, ConfidenceMissing, ConfidenceRange}
        /\ BadFact => enfCall.raised = FactError
        /\ assertions = enfCall.before.assertions
        /\ drift_log = enfCall.before.drift_log

\* C8 witness: assert_fact with an empty source was refused on a log that
\* holds an entry.
C8_Witness ==
    /\ BadFact
    /\ enfCall.args.source = Some("")
    /\ assertions # << >>
    /\ enfCall.raised = FactError

----------------------------------------------------------------------------
(* Claims about JSONFileStorage, checked under SpecStore                   *)

\* C9: for a record r that holds the collection's identity field with an id
\* not yet in the collection, create returns that id, and as long as that id
\* is neither updated nor deleted, read returns a record equal to r.
C9_CreateThenRead ==
    /\ \A k \in DOMAIN fresh : read(files, k[1], k[2]).result = Some(fresh[k])
    /\ (/\ storeCall.op = "create"
        /\ id_field(storeCall.args.collection) \in DOMAIN storeCall.args.record
        /\ ~DictHas(_load_collection(storeCall.before, storeCall.args.collection),
                    storeCall.args.record[id_field(storeCall.args.collection)])) =>
           /\ storeCall.raised = NoError
           /\ storeCall.result =
                  Some(storeCall.args.record[id_field(storeCall.args.collection)])

\* C9 witness: a record created earlier is still untouched after another
\* record of the same collection was updated.
C9_Witness ==
    /\ storeCall.op = "update"
    /\ storeCall.result # None
    /\ \E k \in DOMAIN fresh :
           /\ k[1] = storeCall.args.collection
           /\ k[2] # storeCall.args.record_id

\* The create call was given an id that the collection already held.
DuplicateCreate ==
    /\ storeCall.op = "create"
    /\ id_field(storeCall.args.collection) \in DOMAIN storeCall.args.record
    /\ DictHas(_load_collection(storeCall.before, storeCall.args.collection),
               storeCall.args.record[id_field(storeCall.args.collection)])

\* C10: create with an id that the collection already holds raises
\* DuplicateEntry and leaves every collection as it was: the stored record is
\* not overwritten and no other record is affected.
C10_DuplicateRefused ==
    DuplicateCreate =>
        /\ storeCall.raised = DuplicateEntryError
        /\ files = storeCall.before

\* C10 witness: a duplicate create carried a record that differs from the one
\* stored, in a collection that holds another record too.
C10_Witness ==
    /\ DuplicateCreate
    /\ Len(_load_collection(files, storeCall.args.collection)) = 2
    /\ read(files, storeCall.args.collection,
            storeCall.args.record[id_field(storeCall.args.collection)]).result
         # Some(storeCall.args.record)

\* The identity field the store designates for a collection.
DesignatedField(c) ==
    IF c = "identities" THEN "identity_id"
    ELSE IF c = "sessions" THEN "session_id"
    ELSE IF c = "memories" THEN "memory_id"
    ELSE IF c = "agent_dna" THEN "agent_dna_id"
    ELSE "id"

\* The records the collection c held before the last call, and holds now.
StoredBefore(c) == _load_collection(storeCall.before, c)
StoredNow(c) == _load_collection(files, c)

C12_DeleteContract ==
    storeCall.op = "delete" =>
        LET c == storeCall.args.collection
            id == storeCall.args.record_id
        IN  /\ storeCall.raised = NoError
            /\ ~DictHas(StoredBefore(c), id) =>
                   /\ storeCall.result = Some(FALSE)
                   /\ files = storeCall.before
            /\ DictHas(StoredBefore(c), id) =>
                   /\ storeCall.result = Some(TRUE)
                   /\ read(files, c, id).result = None
                   /\ \A k \in DictKeys(StoredBefore(c)) \ {id} :
                          read(files, c, k).result = DictGet(StoredBefore(c), k)
                   /\ DictKeys(StoredNow(c)) = DictKeys(StoredBefore(c)) \ {id}
                   /\ \A d \in Collections \ {c} : files[d] = storeCall.before[d]

\* C12 witness: a record was deleted from a collection that held two.
C12_Witness ==
    /\ storeCall.op = "delete"
    /\ storeCall.result = Some(TRUE)
    /\ Len(StoredBefore(storeCall.args.collection)) = 2
    /\ Len(StoredNow(storeCall.args.collection)) = 1

\* C13: update of a present id merges the top-level fields: the record read
\* afterwards has the new value for every field of the update and the old
\* value for every other field, and it is what update returns; update of a
\* missing id returns absent and leaves the files as they were.
C13_UpdateMerges ==
    storeCall.op = "update" =>
        LET c == storeCall.args.collection
            id == storeCall.args.record_id
            u == storeCall.args.updates
        IN  /\ storeCall.raised = NoError
            /\ ~DictHas(StoredBefore(c), id) =>
                   /\ storeCall.result = None
                   /\ files = storeCall.before
            /\ DictHas(StoredBefore(c), id) =>
                   LET old == DictGet(StoredBefore(c), id)[1]
                       now == read(files, c, id).result
                   IN  /\ now # None
                       /\ storeCall.result = now
                       /\ DOMAIN now[1] = DOMAIN old \cup DOMAIN u
                       /\ \A f \in DOMAIN u : now[1][f] = u[f]
                       /\ \A f \in DOMAIN old \ DOMAIN u : now[1][f] = old[f]

\* C13 witness: an update changed one field of a record that holds two.
C13_Witness ==
    /\ storeCall.op = "update"
    /\ storeCall.result # None
    /\ Cardinality(DOMAIN storeCall.result[1]) = 2
    /\ DictGet(StoredBefore(storeCall.args.collection), storeCall.args.record_id)
         # storeCall.result
    /\ DOMAIN DictGet(StoredBefore(storeCall.args.collection),
                      storeCall.args.record_id)[1] = Fields

\* C14 (fails on the code): the record stored under key k has its identity
\* field equal to k, and no two records of a collection carry the same
\* identity value.
C14_IdentityIsKey ==
    \A c \in Collections :
        LET data == StoredNow(c)
        IN  /\ \A i \in 1 .. Len(data) :
                   /\ DesignatedField(c) \in DOMAIN data[i][2]
                   /\ data[i][2][DesignatedField(c)] = data[i][1]
            /\ \A i, j \in 1 .. Len(data) :
                   (/\ i # j
                    /\ DesignatedField(c) \in DOMAIN data[i][2]
                    /\ DesignatedField(c) \in DOMAIN data[j][2]) =>
                       data[i][2][DesignatedField(c)] # data[j][2][DesignatedField(c)]

----------------------------------------------------------------------------
(* Claims about JSONFileStorage.query, checked under SpecQuery             *)

\* The value at a path of field names in a JSON value, null when the path
\* leaves the nested mappings.
RECURSIVE ValueAt(_, _)
ValueAt(v, path) ==
    IF path = << >> THEN v
    ELSE IF DOMAIN v = {"dict"} /\ path[1] \in DOMAIN v.dict
         THEN ValueAt(v.dict[path[1]], Tail(path))
    ELSE [null |-> TRUE]

\* The field names a filter key of the model stands for.
PathOf(key) ==
    IF key = KeyMP THEN <<"m", "p">> ELSE IF key = KeyM THEN <<"m">> ELSE <<"id">>

\* The record satisfies every entry of the filters (None and {} ask nothing).
Satisfies(record, filters) ==
    filters # None =>
        \A key \in DOMAIN filters[1] :
            ValueAt([dict |-> record], PathOf(key)) = filters[1][key]

----------------------------------------------------------------------------
(* Claims about two concurrent writers, checked under SpecWriters          *)

\* Writer w has returned from a successful create.
Created(w) == writers[w].pc = "done" /\ writers[w].raised = NoError

\* The id writer w created.
CreatedId(w) == writers[w].result[1]

\* C16: with two writers whose creates of different ids on one collection
\* have both returned successfully, the persisted collection is the one the last saver loaded
\* plus its own record: the other writer's record is in it exactly when the
\* last saver's load saw it, so a save made between the last saver's load and
\* its save is lost.
C16_LastWriteWins ==
    \A w \in Writers, u \in Writers :
        (w # u /\ Created(w) /\ Created(u) /\ Last(saved) = w
               /\ CreatedId(w) # CreatedId(u)) =>
            /\ _load_collection(files, "notes")
                   = DictSet(writers[w].data[1], CreatedId(w), writers[w].record[1])
            /\ DictHas(_load_collection(files, "notes"), CreatedId(u))
                   <=> DictHas(writers[w].data[1], CreatedId(u))

\* C16 witness: both creates returned their ids, and the persisted collection
\* holds only the record of the writer that saved last.
C16_Witness ==
    \E w \in Writers, u \in Writers :
        /\ w # u /\ Created(w) /\ Created(u) /\ Last(saved) = w
        /\ CreatedId(w) # CreatedId(u)
        /\ DictKeys(_load_collection(files, "notes")) = {CreatedId(w)}

----------------------------------------------------------------------------
(* Claims about the shape of a LineageChain, checked under SpecChain       *)

\* C17: a chain holds one (domain, module) stream: all its elements have the
\* same domain and the same module.
C17_OneStream ==
    \A i \in 1 .. Len(vault_ids), j \in 1 .. Len(vault_ids) :
        /\ vault_ids[i].domain = vault_ids[j].domain
        /\ vault_ids[i].module = vault_ids[j].module

\* C18: a chain never forks: no two elements name the same predecessor URI,
\* and no URI stands at two positions.
C18_NoFork ==
    \A i \in 1 .. Len(vault_ids), j \in 1 .. Len(vault_ids) :
        i # j =>
            /\ to_uri(vault_ids[i]) # to_uri(vault_ids[j])
            /\ (vault_ids[i].predecessor # None /\ vault_ids[j].predecessor # None)
                   => vault_ids[i].predecessor # vault_ids[j].predecessor

----------------------------------------------------------------------------
(* Claims about verify_integrity and lookback                              *)

\* Every element after the first names the URI of the element before it.
AllLinksMatch(chain) ==
    \A i \in 2 .. Len(chain) : chain[i].predecessor = <<to_uri(chain[i - 1])>>

----------------------------------------------------------------------------
(* Claims about the checksum functions                                     *)

\* The states hold the same mappings: dicts have the same keys with values
\* that hold the same mappings, lists agree element by element in order.
RECURSIVE SameUpToKeyOrder(_, _)
SameUpToKeyOrder(s, t) ==
    IF DOMAIN s = {"items"} /\ DOMAIN t = {"items"}
    THEN /\ { it[1] : it \in { s.items[i] : i \in 1 .. Len(s.items) } }
                = { it[1] : it \in { t.items[i] : i \in 1 .. Len(t.items) } }
         /\ \A i \in 1 .. Len(s.items), j \in 1 .. Len(t.items) :
                s.items[i][1] = t.items[j][1]
                    => SameUpToKeyOrder(s.items[i][2], t.items[j][2])
    ELSE IF DOMAIN s = {"list"} /\ DOMAIN t = {"list"}
    THEN /\ Len(s.list) = Len(t.list)
         /\ \A i \in 1 .. Len(s.list) : SameUpToKeyOrder(s.list[i], t.list[i])
    ELSE s = t

C22_TextIgnoresFiles ==
    (calc.op = "verify_checksum" /\ DOMAIN calc.args[1] = {"str"}) =>
        calc.result = [raised |-> NoError,
                       value |-> <<[compute_text_checksum(calc.args[1].str) EXCEPT !.case = "lower"]
                                      = [calc.args[2] EXCEPT !.case = "lower"]>>]

----------------------------------------------------------------------------
(* Claims about VaultID URIs, checked under SpecUri                        *)

HasSlash(s) == \E i \in 1 .. Len(s) : s[i] = "/"

\* s is AMOS://{domain}/{module}/v{version} for some non-empty domain and
\* module without a slash and some non-empty version.
IsVaultUri(s) ==
    \E i \in 1 .. Len(s), j \in 1 .. Len(s) :
        /\ 8 < i /\ i + 1 < j /\ j + 1 < Len(s)
        /\ SubSeq(s, 1, 7) = <<"A", "M", "O", "S", ":", "/", "/">>
        /\ ~HasSlash(SubSeq(s, 8, i - 1))
        /\ s[i] = "/"
        /\ ~HasSlash(SubSeq(s, i + 1, j - 1))
        /\ s[j] = "/"
        /\ s[j + 1] = "v"

\* C23: for a domain and a module without a slash and any version (all
\* non-empty), parsing the rendered URI gives the same three fields; a string
\* that from_uri accepts is rendered back unchanged; and a string that is not
\* of the form AMOS://{domain}/{module}/v{version} is rejected with ValueError.
C23_UriRoundTrip ==
    /\ (calc.op = "to_uri" /\ ~HasSlash(calc.args[1].domain) /\ ~HasSlash(calc.args[1].module)) =>
           /\ calc.result[2].raised = NoError
           /\ calc.result[2].value = <<calc.args[1]>>
    /\ (calc.op = "from_uri" /\ calc.result[1].raised = NoError) =>
           calc.result[2] = <<calc.args[1]>>
    /\ (calc.op = "from_uri" /\ ~IsVaultUri(calc.args[1])) =>
           calc.result[1].raised = InvalidUri

----------------------------------------------------------------------------
(* Claims about create_vault_id, checked under SpecVaultId                 *)

\* The metadata hold the same mapping: both absent, or the same keys with the
\* same values (the order the keys were inserted in is not part of a dict).
SameMetadata(m, n) ==
    IF m = << >> \/ n = << >> THEN m = n
    ELSE { m[1].items[i] : i \in 1 .. Len(m[1].items) }
             = { n[1].items[i] : i \in 1 .. Len(n[1].items) }

\* C24: two records built by create_vault_id have the same checksum exactly
\* when they were built from the same domain, module, version, predecessor
\* and metadata at the same instant.
C24_ChecksumOfFields ==
    calc.op = "create_vault_id" =>
        LET i == calc.args[1]
            j == calc.args[2]
        IN  (calc.result[1].checksum = calc.result[2].checksum)
                <=> /\ i.domain = j.domain
                    /\ i.module = j.module
                    /\ i.version = j.version
                    /\ i.predecessor = j.predecessor
                    /\ SameMetadata(i.metadata, j.metadata)
                    /\ i.now = j.now

\* C24 witness: two records built from the same fields a moment apart have
\* different checksums.
C24_Witness ==
    /\ calc.op = "create_vault_id"
    /\ [calc.args[1] EXCEPT !.now = 0] = [calc.args[2] EXCEPT !.now = 0]
    /\ calc.args[1].now # calc.args[2].now
    /\ calc.args[1].metadata # << >>
    /\ calc.result[1].checksum # calc.result[2].checksum

----------------------------------------------------------------------------
(* Claims about VaultManager artifacts, checked under SpecArtifacts        *)

\* C25: verify_artifact_integrity(id) is true while the content of the
\* artifact created under that id is the content it was created with, false
\* once that content has been replaced by different content, and false for an
\* id no artifact was created under.
C25_ArtifactIntegrity ==
    vmCall.op = "verify_artifact_integrity" =>
        /\ \A i \in 1 .. Len(artifacts) :
               artifacts[i].artifact_id = vmCall.args[1]
                   => vmCall.result = <<artifacts[i].content = created[i]>>
        /\ (\A i \in 1 .. Len(artifacts) : artifacts[i].artifact_id # vmCall.args[1])
               => vmCall.result = <<FALSE>>

\* C29: no two artifacts of a manager share an artifact_id, and
\* get_artifact_by_id(id) returns the artifact created under id.
C29_ArtifactIdsUnique ==
    /\ \A i \in 1 .. Len(artifacts), j \in 1 .. Len(artifacts) :
           i # j => artifacts[i].artifact_id # artifacts[j].artifact_id
    /\ vmCall.op = "get_artifact_by_id" =>
           \A i \in 1 .. Len(artifacts) :
               artifacts[i].artifact_id = vmCall.args[1] => vmCall.result = <<artifacts[i]>>

----------------------------------------------------------------------------
(* Claims about VaultManager lineage tracking, checked under SpecLineage   *)

\* C30: every chain the manager holds is non-empty and has every link
\* matching, and a track_lineage call that raised left lineage_chains as it
\* was: the same chains with the same elements.
C30_TrackedChainsSound ==
    /\ \A i \in 1 .. Len(lineage_chains) :
           /\ lineage_chains[i][2] # << >>
           /\ \A k \in 2 .. Len(lineage_chains[i][2]) :
                  lineage_chains[i][2][k].predecessor
                      = <<to_uri(lineage_chains[i][2][k - 1])>>
    /\ (vmCall.op = "track_lineage" /\ vmCall.raised # NoError)
           => lineage_chains = vmCall.before[1]

\* C30 witness: a track_lineage call under an explicit chain id raised a
\* lineage break while the manager held two chains, one of them of two
\* elements.
C30_Witness ==
    /\ vmCall.op = "track_lineage"
    /\ vmCall.raised = LineageBreak
    /\ vmCall.args[2] # << >>
    /\ Len(lineage_chains) = 2
    /\ \E i \in 1 .. 2 : Len(lineage_chains[i][2]) = 2

----------------------------------------------------------------------------
(* Claims about MetaCognitionEngine, checked under SpecGates               *)

\* C26: gate_results has one entry per wisdom_gate call made, get_summary
\* reports that number as total_gate_evaluations, and the result a call
\* returns is the entry that call appended.
C26_EveryEvaluationRecorded ==
    /\ Len(gate_results) = gateCalls
    /\ gateCall.op = "get_summary" => gateCall.result[1].total_gate_evaluations = gateCalls
    /\ gateCall.op = "wisdom_gate" => gate_results = Append(gateCall.before, gateCall.result[1])

----------------------------------------------------------------------------
(* Claims about a rewrite that is cut short, checked under SpecCrash       *)

\* C27: a mutation truncates the collection file and then writes it, so
\* once a process dies in between, a record the collection held before
\* that call, and that the call was not about, cannot be read back: the
\* read raises StorageReadError (or returns None) and never the record.
\* Short of such a crash, a read never raises.
C27_CrashCorruptsCollection ==
    diskCall.op = "read" =>
        /\ <<diskCall.collection, diskCall.record_id>> \in DOMAIN survivors =>
               /\ diskCall.raised = StorageReadError \/ diskCall.result = None
               /\ diskCall.result #
                      Some(survivors[<<diskCall.collection, diskCall.record_id>>])
        /\ diskCall.raised = StorageReadError => Corrupt(docs, diskCall.collection)

\* A record stored before the interrupted call, and not its target, is read
\* after the crash, and the read raises StorageReadError.
C27_Witness ==
    /\ diskCall.op = "read"
    /\ <<diskCall.collection, diskCall.record_id>> \in DOMAIN survivors
    /\ diskCall.raised = StorageReadError

----------------------------------------------------------------------------
(* Claims about RateLimiter, checked under SpecLimiter                     *)

\* The calls of key that were allowed, among events i .. j, at a time in
\* s .. s + time_window - 1 (an interval shorter than time_window).
AllowedIn(key, i, j, s) ==
    { n \in i .. j : /\ limLog[n].op = "is_allowed" /\ limLog[n].key = key
                     /\ limLog[n].allowed
                     /\ limLog[n].time \in s .. s + limiter[1].time_window - 1 }

\* Events i .. j hold no reset of key.
Undisturbed(key, i, j) ==
    \A n \in i .. j : ~(limLog[n].op = "reset" /\ limLog[n].key = key)

\* The last call: one refused is not recorded, and no call touches another key.
RefusedNotRecorded ==
    limCall.op \in {"is_allowed", "rate_limit"} =>
        LET key == limCall.key[1]
            old == limCall.before[1].calls
            held == IF key \in DOMAIN old THEN old[key] ELSE << >>
        IN  /\ ~limCall.result[1] =>
                   /\ limiter[1].calls[key] = in_window(limiter[1], held, limCall.at)
                   /\ limCall.op = "rate_limit" => limCall.raised = CryptoOperationError
            /\ limCall.result[1] =>
                   limiter[1].calls[key] =
                       Append(in_window(limiter[1], held, limCall.at), limCall.at)
            /\ \A k \in LimiterKeys \ {key} :
                   /\ k \in DOMAIN limiter[1].calls <=> k \in DOMAIN old
                   /\ k \in DOMAIN old => limiter[1].calls[k] = old[k]

\* The decision for a key is the same whatever was done with other keys:
\* it is the decision a limiter makes that saw only this key's events.
RECURSIVE Replay(_, _, _)
Replay(lim, key, events) ==
    IF events = << >> THEN << >>
    ELSE LET e == events[1]
         IN  IF e.op = "is_allowed" /\ e.key = key
             THEN <<is_allowed(lim, key, e.time).result>>
                      \o Replay(is_allowed(lim, key, e.time).limiter, key, Tail(events))
             ELSE IF e.op = "reset" /\ e.key = key
             THEN Replay(reset(lim, key), key, Tail(events))
             ELSE Replay(lim, key, Tail(events))

Decisions(key) ==
    LET own == SelectSeq(limLog, LAMBDA e : e.op = "is_allowed" /\ e.key = key)
    IN  [n \in 1 .. Len(own) |-> own[n].allowed]

KeysIndependent ==
    limiter # None =>
        \A key \in LimiterKeys :
            Decisions(key) =
                Replay(RateLimiter(limiter[1].max_calls, limiter[1].time_window), key, limLog)

\* After reset(key), the next max_calls calls for the key are allowed.
AllowedAfterReset ==
    \A i \in 1 .. Len(limLog), j \in 1 .. Len(limLog) :
        (/\ i < j
         /\ limLog[i].op = "reset"
         /\ limLog[j].op = "is_allowed" /\ limLog[j].key = limLog[i].key
         /\ \A n \in i + 1 .. j : ~(limLog[n].op = "reset" /\ limLog[n].key = limLog[i].key)
         /\ Cardinality({ n \in i + 1 .. j : limLog[n].op = "is_allowed"
                                             /\ limLog[n].key = limLog[i].key })
                <= limiter[1].max_calls)
            => limLog[j].allowed

====
